---- MODULE Spec2Model ----
(***************************************************************************)
(* Zero-Compiler: the pipeline `run` of src/src/main.rs (parse, type       *)
(* check, compile, execute on the VM), the legacy tree-walking interpreter *)
(* `run_old`, and the data model they share.                               *)
(*                                                                         *)
(* Conventions.  Offsets, slots and indices are 0-based as in the Rust     *)
(* code; TLA+ sequences are 1-based, so code[ip] is written code[ip + 1].  *)
(* A Rust String (source text, a token's value, an identifier, a literal,  *)
(* a printed line) is a sequence of one-character strings.  An f64 is an   *)
(* exact fraction <<numerator, denominator>> in lowest terms.  An          *)
(* Option<T> is a sequence of length at most one.  Enum variants are       *)
(* records tagged by the variant's name.                                   *)
(*                                                                         *)
(* A method that binds intermediate results (`let x = ...?;`) is written   *)
(* as a chain of operators: method_x is the rest of the method once x has  *)
(* been computed, and takes x as its last parameter.                       *)
(***************************************************************************)
EXTENDS Integers, Sequences, FiniteSets, TLC

VARIABLES prog, phase, lex_position, tokens, ast, stmt_index, tcres, chunk, stack, globals, frames, current_frame, output, vmerr, oldres, ghost, file

vars == <<prog, phase, lex_position, tokens, ast, stmt_index, tcres, chunk, stack, globals, frames, current_frame, output, vmerr, oldres, ghost, file>>

(***************************************************************************)
(* Bounds of the model and constants of the program.                       *)
(***************************************************************************)
\* largest n of the counting loops in the program pool
MaxCount == 3
\* digits printed after the decimal point of a non-integral float
FracDigits == 2
\* statements the tree-walking interpreter may execute before it is cut off
InterpFuel == 60
\* bits of the machine integer of the model; the code's i64 has 64, which is
\* beyond the integers the model checker computes with
IntBits == 16
\* vm/mod.rs:434  the operand stack limit of VM::push
StackMax == 1024
\* compiler/mod.rs:538  the locals limit of Compiler::add_local
MaxLocals == 256

(***************************************************************************)
(* Sequence helpers.                                                       *)
(***************************************************************************)
Last(s) == s[Len(s)]

Front(s) == SubSeq(s, 1, Len(s) - 1)

RECURSIVE Reverse(_)
Reverse(s) == IF s = <<>> THEN <<>> ELSE Append(Reverse(Tail(s)), Head(s))

RECURSIVE Flatten(_)
Flatten(ss) == IF ss = <<>> THEN <<>> ELSE Head(ss) \o Flatten(Tail(ss))

Abs(x) == IF x < 0 THEN -x ELSE x

RECURSIVE Gcd(_, _)
Gcd(a, b) == IF b = 0 THEN a ELSE Gcd(b, a % b)

\* Rust's integer division truncates toward zero; its remainder has the
\* sign of the dividend.
TruncDiv(x, y) == LET q == Abs(x) \div Abs(y) IN IF (x < 0) = (y < 0) THEN q ELSE -q

TruncRem(x, y) == x - y * TruncDiv(x, y)

\* i64::MIN and i64::MAX, at the width of the model
IntMin == -(2 ^ (IntBits - 1))

IntMax == 2 ^ (IntBits - 1) - 1

(***************************************************************************)
(* bytecode/mod.rs: Value.                                                 *)
(***************************************************************************)
VInt(i) == [tag |-> "Integer", v |-> i]

\* an f64 as a fraction in lowest terms with a positive denominator
FNorm(n, d) == LET g == Gcd(Abs(n), Abs(d)) s == IF d < 0 THEN -1 ELSE 1 IN <<(s * n) \div g, (s * d) \div g>>

VFloat(n, d) == [tag |-> "Float", v |-> FNorm(n, d)]

VString(s) == [tag |-> "String", v |-> s]

VBool(b) == [tag |-> "Boolean", v |-> b]

VArray(elems) == [tag |-> "Array", v |-> elems]

VFunction(f) == [tag |-> "Function", v |-> f]

VNull == [tag |-> "Null", v |-> 0]

\* #[derive(PartialEq)] on Value: same variant and equal payloads
RECURSIVE ValueEq(_, _)
ValueEq(a, b) ==
    /\ a.tag = b.tag
    /\ IF a.tag = "Array"
       THEN /\ Len(a.v) = Len(b.v)
            /\ \A i \in 1..Len(a.v) : ValueEq(a.v[i], b.v[i])
       ELSE a.v = b.v

is_truthy(val) ==
    CASE val.tag = "Boolean" -> val.v
      [] val.tag = "Null" -> FALSE
      [] val.tag = "Integer" -> val.v # 0
      [] val.tag = "Float" -> val.v[1] # 0
      [] val.tag = "Array" -> val.v # <<>>
      [] OTHER -> TRUE

DigitChar(d) == <<"0", "1", "2", "3", "4", "5", "6", "7", "8", "9">>[d + 1]

RECURSIVE NatToChars(_)
NatToChars(n) == IF n < 10 THEN <<DigitChar(n)>> ELSE Append(NatToChars(n \div 10), DigitChar(n % 10))

\* i64::to_string
IntToChars(i) == IF i < 0 THEN <<"-">> \o NatToChars(-i) ELSE NatToChars(i)

RECURSIVE FracChars(_, _, _)
FracChars(r, d, k) == IF r = 0 \/ k = 0 THEN <<>> ELSE <<DigitChar((r * 10) \div d)>> \o FracChars((r * 10) % d, d, k - 1)

\* f64::to_string: an integral value prints without a fraction
FloatToChars(q) ==
    LET n == Abs(q[1])
        ip == n \div q[2]
        r == n % q[2]
    IN (IF q[1] < 0 THEN <<"-">> ELSE <<>>) \o NatToChars(ip) \o (IF r = 0 THEN <<>> ELSE <<".">> \o FracChars(r, q[2], FracDigits))

RECURSIVE JoinCommaSpace(_)
JoinCommaSpace(ss) ==
    IF ss = <<>> THEN <<>>
    ELSE IF Len(ss) = 1 THEN ss[1]
    ELSE ss[1] \o <<",", " ">> \o JoinCommaSpace(Tail(ss))

\* Value::to_string
RECURSIVE to_string(_)
to_string(val) ==
    CASE val.tag = "Integer" -> IntToChars(val.v)
      [] val.tag = "Float" -> FloatToChars(val.v)
      [] val.tag = "String" -> val.v
      [] val.tag = "Boolean" -> IF val.v THEN <<"t", "r", "u", "e">> ELSE <<"f", "a", "l", "s", "e">>
      [] val.tag = "Array" -> <<"[">> \o JoinCommaSpace([i \in 1..Len(val.v) |-> to_string(val.v[i])]) \o <<"]">>
      [] val.tag = "Function" -> <<"<", "f", "u", "n", "c", "t", "i", "o", "n", ">">>
      [] OTHER -> <<"n", "u", "l", "l">>

(***************************************************************************)
(* bytecode/mod.rs: OpCode, Chunk, Function.                               *)
(***************************************************************************)
Op(name, operand) == [op |-> name, a |-> operand]

Op0(name) == [op |-> name, a |-> 0]

\* Chunk::new.  Beside code, constants and lines a chunk carries the notes
\* the compiler's history leaves about its own output: spans (the code range
\* of every statement), sc (every && / || site), ia (every index
\* assignment) and typed (every print and variable declaration, numbered in
\* program order), decl (every add_local: where the local's value is on top
\* of the stack, and its insertion index) and lv (every LoadLocal and
\* StoreLocal, with the local it was emitted for).  No instruction reads
\* them.  fld notes every FieldGet and FieldSet with the field name of the
\* expression it was emitted for.
NewChunk == [code |-> <<>>, constants |-> <<>>, lines |-> <<>>, spans |-> <<>>, sc |-> <<>>, ia |-> <<>>, typed |-> <<>>, decl |-> <<>>, lv |-> <<>>, fld |-> <<>>, rs |-> <<>>, es |-> <<>>, lp |-> <<>>]

\* Chunk::write
ChunkWrite(c, instr, line) == [c EXCEPT !.code = Append(@, instr), !.lines = Append(@, line)]

\* Chunk::add_constant: (chunk, index of the new constant)
ChunkAddConstant(c, val) == [chunk |-> [c EXCEPT !.constants = Append(@, val)], idx |-> Len(c.constants)]

(***************************************************************************)
(* vm/mod.rs: the virtual machine.  A machine state is the record          *)
(* [stack, globals, frames, current_frame, output, status, err]; status is *)
(* "running", "halted" (run returned Ok), "error" (run returned a VMError, *)
(* named by err) or "panic" (the Rust code indexed out of bounds).         *)
(***************************************************************************)
\* VM::new
NewVM == [stack |-> <<>>, globals |-> <<>>, frames |-> <<>>, current_frame |-> 0, output |-> <<>>, status |-> "running", err |-> "none"]

VMFail(m, kind) == [m EXCEPT !.status = "error", !.err = kind]

VMPanic(m, why) == [m EXCEPT !.status = "panic", !.err = why]

\* a push that does not look at the height of the stack
VMPush_unchecked(m, val) == [m EXCEPT !.stack = Append(@, val)]

\* VM::push
VMPush(m, val) == IF Len(m.stack) >= StackMax THEN VMFail(m, "StackOverflow") ELSE [m EXCEPT !.stack = Append(@, val)]

\* VM::pop, applied n times: the values in the order popped, or StackUnderflow
VMPopN(m, n) ==
    IF Len(m.stack) < n
    THEN [ok |-> FALSE, vals |-> <<>>, m |-> VMFail([m EXCEPT !.stack = <<>>], "StackUnderflow")]
    ELSE [ok |-> TRUE, vals |-> [i \in 1..n |-> m.stack[Len(m.stack) + 1 - i]], m |-> [m EXCEPT !.stack = SubSeq(@, 1, Len(@) - n)]]

\* VM::peek succeeds
VMPeekOk(m, distance) == distance < Len(m.stack)

VMPeek(m, distance) == m.stack[Len(m.stack) - distance]

GlobalsInsert(g, name, val) == [n \in (DOMAIN g) \cup {name} |-> IF n = name THEN val ELSE g[n]]

ROk(val) == [ok |-> TRUE, val |-> val, err |-> "none"]

RErr(kind) == [ok |-> FALSE, val |-> VNull, err |-> kind]

\* the panics of i64's `/` and `%`, which no build turns off
DivOverflow == "attempt to divide with overflow"

RemOverflow == "attempt to calculate the remainder with overflow"

IsNum(val) == val.tag \in {"Integer", "Float"}

\* `x as f64`
AsF64(val) == IF val.tag = "Integer" THEN <<val.v, 1>> ELSE val.v

FAdd(x, y) == VFloat(x[1] * y[2] + y[1] * x[2], x[2] * y[2])

FSub(x, y) == VFloat(x[1] * y[2] - y[1] * x[2], x[2] * y[2])

FMul(x, y) == VFloat(x[1] * y[1], x[2] * y[2])

FDiv(x, y) == VFloat(x[1] * y[2], x[2] * y[1])

FLess(x, y) == x[1] * y[2] < y[1] * x[2]

\* the closures handed to binary_op by Add, Subtract, Multiply, Divide, Modulo
AddOp(a, b) ==
    CASE a.tag = "Integer" /\ b.tag = "Integer" -> ROk(VInt(a.v + b.v))
      [] IsNum(a) /\ IsNum(b) -> ROk(FAdd(AsF64(a), AsF64(b)))
      [] a.tag = "String" /\ b.tag = "String" -> ROk(VString(a.v \o b.v))
      [] OTHER -> RErr("TypeError")

SubtractOp(a, b) ==
    CASE a.tag = "Integer" /\ b.tag = "Integer" -> ROk(VInt(a.v - b.v))
      [] IsNum(a) /\ IsNum(b) -> ROk(FSub(AsF64(a), AsF64(b)))
      [] OTHER -> RErr("TypeError")

MultiplyOp(a, b) ==
    CASE a.tag = "Integer" /\ b.tag = "Integer" -> ROk(VInt(a.v * b.v))
      [] IsNum(a) /\ IsNum(b) -> ROk(FMul(AsF64(a), AsF64(b)))
      [] OTHER -> RErr("TypeError")

DivideOp(a, b) ==
    CASE a.tag = "Integer" /\ b.tag = "Integer" ->
            IF b.v = 0 THEN RErr("DivisionByZero")
            ELSE IF a.v = IntMin /\ b.v = -1 THEN RErr(DivOverflow)
            ELSE ROk(VInt(TruncDiv(a.v, b.v)))
      [] IsNum(a) /\ IsNum(b) -> IF AsF64(b)[1] = 0 THEN RErr("DivisionByZero") ELSE ROk(FDiv(AsF64(a), AsF64(b)))
      [] OTHER -> RErr("TypeError")

ModuloOp(a, b) ==
    CASE a.tag = "Integer" /\ b.tag = "Integer" ->
            IF b.v = 0 THEN RErr("DivisionByZero")
            ELSE IF a.v = IntMin /\ b.v = -1 THEN RErr(RemOverflow)
            ELSE ROk(VInt(TruncRem(a.v, b.v)))
      [] OTHER -> RErr("TypeError")

ArithOp(name, a, b) ==
    CASE name = "Add" -> AddOp(a, b)
      [] name = "Subtract" -> SubtractOp(a, b)
      [] name = "Multiply" -> MultiplyOp(a, b)
      [] name = "Divide" -> DivideOp(a, b)
      [] OTHER -> ModuloOp(a, b)

\* the closures handed to comparison_op
CompareOp(name, x, y) ==
    CASE name = "Greater" -> FLess(y, x)
      [] name = "GreaterEqual" -> ~FLess(x, y)
      [] name = "Less" -> FLess(x, y)
      [] OTHER -> ~FLess(y, x)

\* VM::binary_op
binary_op_r(p, r) ==
    IF ~p.ok THEN p.m
    ELSE IF r.err \in {DivOverflow, RemOverflow} THEN VMPanic(p.m, r.err)
    ELSE IF ~r.ok THEN VMFail(p.m, r.err)
    ELSE VMPush(p.m, r.val)

binary_op_p(name, p) ==
    binary_op_r(p, ArithOp(name, p.vals[2], p.vals[1]))

binary_op(m, name) ==
    binary_op_p(name, VMPopN(m, 2))

\* VM::comparison_op
comparison_op(m, name) ==
    LET p == VMPopN(m, 2)
        a == p.vals[2]
        b == p.vals[1]
    IN IF ~p.ok THEN p.m
       ELSE IF ~(IsNum(a) /\ IsNum(b)) THEN VMFail(p.m, "TypeError")
       ELSE VMPush(p.m, VBool(CompareOp(name, AsF64(a), AsF64(b))))

\* the frame VM::run is working on
CurFrame(m) == m.frames[m.current_frame + 1]

\* the name constant of LoadGlobal / StoreGlobal
NameConstOk(m, idx) == CurFrame(m).function.chunk.constants[idx + 1].tag = "String"

NameConst(m, idx) == CurFrame(m).function.chunk.constants[idx + 1].v

\* indexing that takes a negative index as out of bounds
ActualIdx_from_start(arr, idx) ==
    IF idx < 0 \/ idx >= Len(arr) THEN -1 ELSE idx

\* negative indices count from the end; the index in 0..len-1, or -1 when
\* the Rust code finds actual_idx >= arr.len()
ActualIdx(arr, idx) ==
    LET actual == IF idx < 0 THEN Len(arr) + idx ELSE idx
    IN IF actual < 0 \/ actual >= Len(arr) THEN -1 ELSE actual

ExecLoadConst(m, idx) ==
    IF idx >= Len(CurFrame(m).function.chunk.constants) THEN VMPanic(m, "constants index out of bounds")
    ELSE VMPush(m, CurFrame(m).function.chunk.constants[idx + 1])

ExecLoadLocal(m, slot) ==
    LET offset == CurFrame(m).stack_offset
    IN IF offset + slot >= Len(m.stack) THEN VMPanic(m, "stack index out of bounds")
       ELSE VMPush(m, m.stack[offset + slot + 1])

ExecStoreLocal(m, slot) ==
    LET offset == CurFrame(m).stack_offset
    IN IF ~VMPeekOk(m, 0) THEN VMFail(m, "StackUnderflow")
       ELSE IF offset + slot >= Len(m.stack) THEN VMPanic(m, "stack index out of bounds")
       ELSE [m EXCEPT !.stack[offset + slot + 1] = VMPeek(m, 0)]

ExecLoadGlobal(m, idx) ==
    IF idx >= Len(CurFrame(m).function.chunk.constants) THEN VMPanic(m, "constants index out of bounds")
    ELSE IF ~NameConstOk(m, idx) THEN VMFail(m, "TypeError")
    ELSE IF NameConst(m, idx) \notin DOMAIN m.globals THEN VMFail(m, "UndefinedVariable")
    ELSE VMPush(m, m.globals[NameConst(m, idx)])

ExecStoreGlobal(m, idx) ==
    IF idx >= Len(CurFrame(m).function.chunk.constants) THEN VMPanic(m, "constants index out of bounds")
    ELSE IF ~NameConstOk(m, idx) THEN VMFail(m, "TypeError")
    ELSE IF ~VMPeekOk(m, 0) THEN VMFail(m, "StackUnderflow")
    ELSE [m EXCEPT !.globals = GlobalsInsert(@, NameConst(m, idx), VMPeek(m, 0))]

ExecNegate(m) ==
    LET p == VMPopN(m, 1)
        val == p.vals[1]
    IN IF ~p.ok THEN p.m
       ELSE IF val.tag = "Integer" THEN VMPush(p.m, VInt(-val.v))
       ELSE IF val.tag = "Float" THEN VMPush(p.m, VFloat(-val.v[1], val.v[2]))
       ELSE VMFail(p.m, "TypeError")

ExecEqual(m, negate) ==
    LET p == VMPopN(m, 2)
    IN IF ~p.ok THEN p.m
       ELSE VMPush(p.m, VBool(ValueEq(p.vals[2], p.vals[1]) # negate))

ExecNot(m) ==
    LET p == VMPopN(m, 1)
    IN IF ~p.ok THEN p.m ELSE VMPush(p.m, VBool(~is_truthy(p.vals[1])))

ExecAndOr(m, isAnd) ==
    LET p == VMPopN(m, 2)
        a == is_truthy(p.vals[2])
        b == is_truthy(p.vals[1])
    IN IF ~p.ok THEN p.m
       ELSE VMPush(p.m, VBool(IF isAnd THEN a /\ b ELSE a \/ b))

ExecJump(m, offset) == [m EXCEPT !.frames[m.current_frame + 1].ip = offset]

\* JumpIfFalse / JumpIfTrue that pop the value they test
ExecJumpIf_pops(m, offset, onTrue) ==
    IF ~VMPeekOk(m, 0) THEN VMFail(m, "StackUnderflow")
    ELSE IF is_truthy(VMPeek(m, 0)) = onTrue THEN ExecJump(VMPopN(m, 1).m, offset)
    ELSE VMPopN(m, 1).m

\* JumpIfFalse (onTrue = FALSE) and JumpIfTrue (onTrue = TRUE) peek, never pop
ExecJumpIf(m, offset, onTrue) ==
    IF ~VMPeekOk(m, 0) THEN VMFail(m, "StackUnderflow")
    ELSE IF is_truthy(VMPeek(m, 0)) = onTrue THEN ExecJump(m, offset)
    ELSE m

\* Call with stack_offset taken before the function is removed from the stack
ExecCall_offset_with_callee(m, arg_count) ==
    LET callee == VMPeek(m, arg_count)
        func == callee.v
        stack_offset == Len(m.stack) - arg_count - 1
        removed == SubSeq(m.stack, 1, stack_offset) \o SubSeq(m.stack, stack_offset + 2, Len(m.stack))
        frame == [function |-> func, ip |-> 0, stack_offset |-> Len(m.stack) - arg_count]
    IN IF ~VMPeekOk(m, arg_count) THEN VMFail(m, "StackUnderflow")
       ELSE IF callee.tag # "Function" THEN VMFail(m, "TypeError")
       ELSE IF func.arity # arg_count THEN VMFail(m, "InvalidOperation")
       ELSE [m EXCEPT !.stack = removed, !.frames = Append(@, frame), !.current_frame = @ + 1]

ExecCall(m, arg_count) ==
    LET callee == VMPeek(m, arg_count)
        func == callee.v
        stack_offset == Len(m.stack) - arg_count - 1
        removed == SubSeq(m.stack, 1, stack_offset) \o SubSeq(m.stack, stack_offset + 2, Len(m.stack))
        frame == [function |-> func, ip |-> 0, stack_offset |-> Len(removed) - arg_count]
    IN IF ~VMPeekOk(m, arg_count) THEN VMFail(m, "StackUnderflow")
       ELSE IF callee.tag # "Function" THEN VMFail(m, "TypeError")
       ELSE IF func.arity # arg_count THEN VMFail(m, "InvalidOperation")
       ELSE [m EXCEPT !.stack = removed, !.frames = Append(@, frame), !.current_frame = @ + 1]

ExecReturn_popped(p, popped) ==
    IF ~p.ok THEN p.m
    ELSE IF popped.frames = <<>> THEN [popped EXCEPT !.status = "halted"]
    ELSE IF popped.current_frame = 0 THEN VMPanic(popped, "current_frame underflow")
    ELSE VMPush([popped EXCEPT !.current_frame = @ - 1], p.vals[1])

ExecReturn_truncated(p, truncated) ==
    ExecReturn_popped(p, [p.m EXCEPT !.stack = truncated, !.frames = Front(@)])

ExecReturn_frame_offset(p, frame_offset) ==
    ExecReturn_truncated(p, IF frame_offset < Len(p.m.stack) THEN SubSeq(p.m.stack, 1, frame_offset) ELSE p.m.stack)

\* Return that truncates the stack to one below the frame's stack_offset
ExecReturn_below(m, p) ==
    ExecReturn_frame_offset(p, CurFrame(m).stack_offset - 1)

ExecReturn_p(m, p) ==
    ExecReturn_frame_offset(p, CurFrame(m).stack_offset)

ExecReturn(m) ==
    ExecReturn_p(m, VMPopN(m, 1))

\* how many of the topmost stack positions the instruction pops or peeks
Reach(instr) ==
    CASE instr.op \in {"Add", "Subtract", "Multiply", "Divide", "Modulo", "Equal", "NotEqual", "Greater", "GreaterEqual", "Less", "LessEqual", "And", "Or", "ArrayGet"} -> 2
      [] instr.op \in {"Negate", "Not", "Return", "Pop", "Dup", "ArrayLen", "Print", "StoreLocal", "StoreGlobal", "JumpIfFalse", "JumpIfTrue"} -> 1
      [] instr.op = "ArraySet" -> 3
      [] instr.op = "NewArray" -> instr.a
      [] instr.op = "Call" -> instr.a + 1
      [] OTHER -> 0

ExecPop(m) == VMPopN(m, 1).m

ExecDup(m) == IF ~VMPeekOk(m, 0) THEN VMFail(m, "StackUnderflow") ELSE VMPush(m, VMPeek(m, 0))

ExecNewArray(m, size) ==
    LET p == VMPopN(m, size)
    IN IF ~p.ok THEN p.m ELSE VMPush(p.m, VArray(Reverse(p.vals)))

ExecArrayGet(m) ==
    LET p == VMPopN(m, 2)
        index == p.vals[1]
        array == p.vals[2]
        actual == ActualIdx(array.v, index.v)
    IN IF ~p.ok THEN p.m
       ELSE IF index.tag # "Integer" THEN VMFail(p.m, "TypeError")
       ELSE IF array.tag # "Array" THEN VMFail(p.m, "TypeError")
       ELSE IF actual < 0 THEN VMFail(p.m, "InvalidOperation")
       ELSE VMPush(p.m, array.v[actual + 1])

ExecArraySet_m1(p, val, index, array, actual, m1) ==
    IF ~p.ok THEN p.m
    ELSE IF index.tag # "Integer" THEN VMFail(p.m, "TypeError")
    ELSE IF array.tag # "Array" THEN VMFail(p.m, "TypeError")
    ELSE IF actual < 0 THEN VMFail(p.m, "InvalidOperation")
    ELSE IF m1.status # "running" THEN m1
    ELSE VMPush(m1, val)

ExecArraySet_arr(p, val, index, array, actual, arr) ==
    ExecArraySet_m1(p, val, index, array, actual, VMPush(p.m, VArray(arr)))

ExecArraySet_actual(p, val, index, array, actual) ==
    ExecArraySet_arr(p, val, index, array, actual, [array.v EXCEPT ![actual + 1] = val])

ExecArraySet_array(p, val, index, array) ==
    ExecArraySet_actual(p, val, index, array, ActualIdx(array.v, index.v))

ExecArraySet_index(p, val, index) ==
    ExecArraySet_array(p, val, index, p.vals[3])

ExecArraySet_val(p, val) ==
    ExecArraySet_index(p, val, p.vals[2])

ExecArraySet_p(p) ==
    ExecArraySet_val(p, p.vals[1])

ExecArraySet(m) ==
    ExecArraySet_p(VMPopN(m, 3))

ExecArrayLen(m) ==
    LET p == VMPopN(m, 1)
    IN IF ~p.ok THEN p.m
       ELSE IF p.vals[1].tag # "Array" THEN VMFail(p.m, "TypeError")
       ELSE VMPush(p.m, VInt(Len(p.vals[1].v)))

ExecPrint(m) ==
    LET p == VMPopN(m, 1)
    IN IF ~p.ok THEN p.m ELSE [p.m EXCEPT !.output = Append(@, to_string(p.vals[1]))]

\* the match of VM::run on the fetched instruction
Dispatch(m, instr) ==
    CASE instr.op = "LoadConst" -> ExecLoadConst(m, instr.a)
      [] instr.op = "LoadNull" -> VMPush(m, VNull)
      [] instr.op = "LoadLocal" -> ExecLoadLocal(m, instr.a)
      [] instr.op = "StoreLocal" -> ExecStoreLocal(m, instr.a)
      [] instr.op = "LoadGlobal" -> ExecLoadGlobal(m, instr.a)
      [] instr.op = "StoreGlobal" -> ExecStoreGlobal(m, instr.a)
      [] instr.op \in {"Add", "Subtract", "Multiply", "Divide", "Modulo"} -> binary_op(m, instr.op)
      [] instr.op = "Negate" -> ExecNegate(m)
      [] instr.op = "Equal" -> ExecEqual(m, FALSE)
      [] instr.op = "NotEqual" -> ExecEqual(m, TRUE)
      [] instr.op \in {"Greater", "GreaterEqual", "Less", "LessEqual"} -> comparison_op(m, instr.op)
      [] instr.op = "Not" -> ExecNot(m)
      [] instr.op = "And" -> ExecAndOr(m, TRUE)
      [] instr.op = "Or" -> ExecAndOr(m, FALSE)
      [] instr.op \in {"Jump", "Loop"} -> ExecJump(m, instr.a)
      [] instr.op = "JumpIfFalse" -> ExecJumpIf(m, instr.a, FALSE)
      [] instr.op = "JumpIfTrue" -> ExecJumpIf(m, instr.a, TRUE)
      [] instr.op = "Call" -> ExecCall(m, instr.a)
      [] instr.op = "Return" -> ExecReturn(m)
      [] instr.op = "Pop" -> ExecPop(m)
      [] instr.op = "Dup" -> ExecDup(m)
      [] instr.op = "NewArray" -> ExecNewArray(m, instr.a)
      [] instr.op = "ArrayGet" -> ExecArrayGet(m)
      [] instr.op = "ArraySet" -> ExecArraySet(m)
      [] instr.op = "ArrayLen" -> ExecArrayLen(m)
      [] instr.op = "Print" -> ExecPrint(m)
      [] instr.op = "Halt" -> [m EXCEPT !.status = "halted"]
      [] OTHER -> VMPanic(m, "no arm for this opcode")

\* the instruction VM::run is about to fetch, when the fetch is in bounds
FetchOk(m) == m.current_frame < Len(m.frames) /\ CurFrame(m).ip < Len(CurFrame(m).function.chunk.code)

Fetch(m) == CurFrame(m).function.chunk.code[CurFrame(m).ip + 1]

\* one iteration of the loop of VM::run: fetch, advance ip, execute
RunStep(m) ==
    IF ~FetchOk(m) THEN VMPanic(m, "fetch out of bounds")
    ELSE Dispatch([m EXCEPT !.frames[m.current_frame + 1].ip = @ + 1], Fetch(m))

\* VM::execute up to the call of run: push the frame of the main function
VMExecute(m, c) ==
    [m EXCEPT !.frames = Append(@, [function |-> [name |-> "<script>", arity |-> 0, chunk |-> c, locals_count |-> 0], ip |-> 0, stack_offset |-> 0])]


(***************************************************************************)
(* ast/mod.rs: Type, Expr, Stmt.  The variants StructLiteral, FieldAccess  *)
(* and FieldAssign are the ones parser/mod.rs builds and type_checker and  *)
(* compiler match on.                                                      *)
(***************************************************************************)
TInt == [k |-> "Int", of |-> <<>>]

TFloat == [k |-> "Float", of |-> <<>>]

TString == [k |-> "String", of |-> <<>>]

TBool == [k |-> "Bool", of |-> <<>>]

TVoid == [k |-> "Void", of |-> <<>>]

TNull == [k |-> "Null", of |-> <<>>]

TUnknown == [k |-> "Unknown", of |-> <<>>]

\* Type::Array(Box<Type>)
TArray(elem) == [k |-> "Array", of |-> <<elem>>]

\* Type::Function { params, return_type }: of = <<return_type>> \o params
TFunction(params, ret) == [k |-> "Function", of |-> <<ret>> \o params]

\* Type::Named(name); the name is kept in `of` as a one-field record
TNamed(name) == [k |-> "Named", of |-> <<[k |-> "Name", of |-> name]>>]

EInteger(n) == [k |-> "Integer", v |-> n]

EFloat(q) == [k |-> "Float", v |-> q]

EString(s) == [k |-> "String", v |-> s]

EBoolean(b) == [k |-> "Boolean", v |-> b]

EIdentifier(name) == [k |-> "Identifier", name |-> name]

EArray(elements) == [k |-> "Array", elements |-> elements]

EBinary(left, operator, right) == [k |-> "Binary", left |-> left, operator |-> operator, right |-> right]

EUnary(operator, operand) == [k |-> "Unary", operator |-> operator, operand |-> operand]

ECall(callee, arguments) == [k |-> "Call", callee |-> callee, arguments |-> arguments]

EIndex(object, index) == [k |-> "Index", object |-> object, index |-> index]

EIndexAssign(object, index, value) == [k |-> "IndexAssign", object |-> object, index |-> index, value |-> value]

EAssign(name, value) == [k |-> "Assign", name |-> name, value |-> value]

EStructLiteral(name, fields) == [k |-> "StructLiteral", struct_name |-> name, fields |-> fields]

EFieldAccess(object, field) == [k |-> "FieldAccess", object |-> object, field |-> field]

EFieldAssign(object, field, value) == [k |-> "FieldAssign", object |-> object, field |-> field, value |-> value]

SExpression(expr) == [k |-> "Expression", expr |-> expr]

\* keyword is the token the declaration began with, "let" or "var"; only the
\* history kept of Expr::Assign (assigns) reads it
SVarDeclaration(name, mutable, type_annotation, initializer, keyword) == [k |-> "VarDeclaration", name |-> name, mutable |-> mutable, type_annotation |-> type_annotation, initializer |-> initializer, keyword |-> keyword]

SFnDeclaration(name, parameters, return_type, body) == [k |-> "FnDeclaration", name |-> name, parameters |-> parameters, return_type |-> return_type, body |-> body]

SReturn(value) == [k |-> "Return", value |-> value]

SIf(condition, then_branch, else_branch) == [k |-> "If", condition |-> condition, then_branch |-> then_branch, else_branch |-> else_branch]

SWhile(condition, body) == [k |-> "While", condition |-> condition, body |-> body]

SFor(variable, start, end, body) == [k |-> "For", variable |-> variable, start |-> start, end |-> end, body |-> body]

\* Stmt::StructDeclaration { name, fields }, each field a [name, field_type]
SStructDeclaration(name, fields) == [k |-> "StructDeclaration", name |-> name, fields |-> fields]

SPrint(value) == [k |-> "Print", value |-> value]

SBlock(statements) == [k |-> "Block", statements |-> statements]

Parameter(name, type_annotation) == [name |-> name, type_annotation |-> type_annotation]


(***************************************************************************)
(* compiler/mod.rs.  A compiler state is the record [chunk, locals,        *)
(* scope_depth, loop_starts, loop_breaks, ok, err, site]; ok = FALSE is    *)
(* the Err a `?` propagates, site numbers the prints and declarations.     *)
(***************************************************************************)
\* Compiler::new
NewCompiler == [chunk |-> NewChunk, locals |-> <<>>, scope_depth |-> 0, loop_starts |-> <<>>, loop_breaks |-> <<>>, ok |-> TRUE, err |-> "none", site |-> 0, structs |-> <<>>]

\* the note of a LoadLocal / StoreLocal about to be written
NoteLocal(c, instr) ==
    IF instr.op \in {"LoadLocal", "StoreLocal"} /\ instr.a < Len(c.locals)
    THEN [c EXCEPT !.chunk.lv = Append(@, [at |-> Len(c.chunk.code), slot |-> instr.a, name |-> c.locals[instr.a + 1].name, depth |-> c.locals[instr.a + 1].depth])]
    ELSE c

emit(c, instr) == [NoteLocal(c, instr) EXCEPT !.chunk = ChunkWrite(@, instr, 0)]

\* the jump is written at offset chunk.len() - 1 of the result
emit_jump(c, instr) == emit(c, instr)

\* patch_jump with the target one past chunk.len()
patch_jump_past(c, offset) ==
    IF c.chunk.code[offset + 1].op \in {"Jump", "JumpIfFalse", "JumpIfTrue"}
    THEN [c EXCEPT !.chunk.code[offset + 1].a = Len(c.chunk.code) + 1]
    ELSE [c EXCEPT !.ok = FALSE, !.err = "panic"]

patch_jump(c, offset) ==
    IF c.chunk.code[offset + 1].op \in {"Jump", "JumpIfFalse", "JumpIfTrue"}
    THEN [c EXCEPT !.chunk.code[offset + 1].a = Len(c.chunk.code)]
    ELSE [c EXCEPT !.ok = FALSE, !.err = "panic"]

\* (compiler, index of the name constant)
identifier_constant(c, name) ==
    LET r == ChunkAddConstant(c.chunk, VString(name))
    IN [c |-> [c EXCEPT !.chunk = r.chunk], idx |-> r.idx]

add_local(c, name, is_mutable) ==
    IF Len(c.locals) >= MaxLocals THEN [c EXCEPT !.ok = FALSE, !.err = "TooManyLocals"]
    ELSE [c EXCEPT !.locals = Append(@, [name |-> name, depth |-> c.scope_depth, is_mutable |-> is_mutable]),
                   !.chunk.decl = Append(@, [at |-> Len(c.chunk.code), name |-> name, depth |-> c.scope_depth, index |-> Len(c.locals)])]

\* a scan of the locals from the front, which finds the outermost local of that name
resolve_local_forward(c, name) ==
    LET hits == {i \in 1..Len(c.locals) : c.locals[i].name = name}
    IN IF hits = {} THEN -1 ELSE (CHOOSE i \in hits : \A j \in hits : i <= j) - 1

\* the slot of the innermost local of that name, or -1 for Err(UndefinedVariable)
resolve_local(c, name) ==
    LET hits == {i \in 1..Len(c.locals) : c.locals[i].name = name}
    IN IF hits = {} THEN -1 ELSE (CHOOSE i \in hits : \A j \in hits : j <= i) - 1

begin_scope(c) == [c EXCEPT !.scope_depth = @ + 1]

\* the loop of end_scope, after scope_depth has been decremented
RECURSIVE PopLocals(_)
PopLocals(c) ==
    IF c.locals # <<>> /\ Last(c.locals).depth > c.scope_depth
    THEN PopLocals([emit(c, Op0("Pop")) EXCEPT !.locals = Front(@)])
    ELSE c

\* the note of a call of end_scope: the locals before and after it, the new
\* depth and the instructions it emitted
NoteScopeEnd(c, r) ==
    [r EXCEPT !.chunk.es = Append(@, [before |-> c.locals, depth |-> r.scope_depth, after |-> r.locals,
                                      emitted |-> SubSeq(r.chunk.code, Len(c.chunk.code) + 1, Len(r.chunk.code))])]

end_scope(c) == NoteScopeEnd(c, PopLocals([c EXCEPT !.scope_depth = @ - 1]))

\* the note of an identifier that has been resolved: the locals it was
\* resolved among and the instruction emitted for it
NoteResolved(c, name, r) ==
    [r EXCEPT !.chunk.rs = Append(@, [name |-> name, locals |-> c.locals, instr |-> Last(r.chunk.code)])]

\* if let Ok(slot) = resolve_local(name) { StoreLocal(slot) } else { StoreGlobal(idx) }
EmitStore(c, name) ==
    LET slot == resolve_local(c, name)
        ic == identifier_constant(c, name)
    IN NoteResolved(c, name, IF slot >= 0 THEN emit(c, Op("StoreLocal", slot)) ELSE emit(ic.c, Op("StoreGlobal", ic.idx)))

EmitLoad(c, name) ==
    LET slot == resolve_local(c, name)
        ic == identifier_constant(c, name)
    IN NoteResolved(c, name, IF slot >= 0 THEN emit(c, Op("LoadLocal", slot)) ELSE emit(ic.c, Op("LoadGlobal", ic.idx)))

EmitConst(c, val) ==
    LET r == ChunkAddConstant(c.chunk, val)
    IN emit([c EXCEPT !.chunk = r.chunk], Op("LoadConst", r.idx))

\* the opcode the second match of Expr::Binary emits
BinaryOpcode(operator) == Op0(operator)

NoteTyped(c) == [c EXCEPT !.chunk.typed = Append(@, [at |-> Len(c.chunk.code), site |-> c.site]), !.site = @ + 1]

RECURSIVE compile_expression(_, _)
RECURSIVE compile_expressions(_, _)
RECURSIVE compile_statement(_, _)
RECURSIVE compile_statements(_, _)
RECURSIVE compile_function(_, _, _, _)

\* for e in exprs { compile_expression(e)? }
compile_expressions(c, exprs) ==
    IF ~c.ok \/ exprs = <<>> THEN c
    ELSE compile_expressions(compile_expression(c, Head(exprs)), Tail(exprs))

\* BinaryOp::And / BinaryOp::Or
CompileShortCircuit_c5(isAnd, c1, jump, c4, c5) ==
    IF ~c1.ok THEN c1
    ELSE IF ~c4.ok THEN c4
    ELSE [c5 EXCEPT !.chunk.sc = Append(@, [at |-> jump, isAnd |-> isAnd, L |-> Len(c5.chunk.code)])]

CompileShortCircuit_c4(isAnd, c1, jump, c4) ==
    CompileShortCircuit_c5(isAnd, c1, jump, c4, patch_jump(c4, jump))

CompileShortCircuit_c3(expr, isAnd, c1, jump, c3) ==
    CompileShortCircuit_c4(isAnd, c1, jump, compile_expression(c3, expr.right))

CompileShortCircuit_c2(expr, isAnd, c1, jump, c2) ==
    CompileShortCircuit_c3(expr, isAnd, c1, jump, emit(c2, Op0("Pop")))

CompileShortCircuit_jump(expr, isAnd, c1, jump) ==
    CompileShortCircuit_c2(expr, isAnd, c1, jump, emit_jump(c1, Op(IF isAnd THEN "JumpIfFalse" ELSE "JumpIfTrue", 0)))

CompileShortCircuit_c1(expr, isAnd, c1) ==
    CompileShortCircuit_jump(expr, isAnd, c1, Len(c1.chunk.code))

CompileShortCircuit_isAnd(c, expr, isAnd) ==
    CompileShortCircuit_c1(expr, isAnd, compile_expression(c, expr.left))

CompileShortCircuit(c, expr) ==
    CompileShortCircuit_isAnd(c, expr, expr.operator = "And")

\* Expr::IndexAssign
CompileIndexAssign_c5(isVar, c3, at, c5) ==
    IF ~c3.ok THEN c3
    ELSE [c5 EXCEPT !.chunk.ia = Append(@, [at |-> at, isVar |-> isVar])]

CompileIndexAssign_c4(expr, isVar, c3, at, c4) ==
    CompileIndexAssign_c5(isVar, c3, at, IF isVar THEN EmitStore(c4, expr.object.name) ELSE c4)

CompileIndexAssign_at(expr, isVar, c3, at) ==
    CompileIndexAssign_c4(expr, isVar, c3, at, emit(c3, Op0("ArraySet")))

CompileIndexAssign_c3(expr, isVar, c3) ==
    CompileIndexAssign_at(expr, isVar, c3, Len(c3.chunk.code))

CompileIndexAssign_c2(expr, isVar, c2) ==
    CompileIndexAssign_c3(expr, isVar, compile_expression(c2, expr.value))

CompileIndexAssign_c1(expr, isVar, c1) ==
    CompileIndexAssign_c2(expr, isVar, compile_expression(c1, expr.index))

CompileIndexAssign_isVar(c, expr, isVar) ==
    CompileIndexAssign_c1(expr, isVar, compile_expression(c, expr.object))

CompileIndexAssign(c, expr) ==
    CompileIndexAssign_isVar(c, expr, expr.object.k = "Identifier")

\* the note of a FieldGet / FieldSet about to be written
NoteField(c, field, instr) ==
    [c EXCEPT !.chunk.fld = Append(@, [at |-> Len(c.chunk.code), op |-> instr.op, field |-> field, index |-> instr.a])]

\* Expr::FieldAssign
CompileFieldAssign_c3(expr, c2, c3) ==
    IF ~c2.ok THEN c2
    ELSE IF expr.object.k = "Identifier" THEN EmitStore(c3, expr.object.name)
    ELSE c3

\* self.emit(OpCode::FieldSet(0), 0): `let _ = field;`
FieldSetOp(c, expr) == Op("FieldSet", 0)

CompileFieldAssign_c2(expr, c2) ==
    CompileFieldAssign_c3(expr, c2, emit(NoteField(c2, expr.field, FieldSetOp(c2, expr)), FieldSetOp(c2, expr)))

CompileFieldAssign_c1(expr, c1) ==
    CompileFieldAssign_c2(expr, compile_expression(c1, expr.value))

CompileFieldAssign(c, expr) ==
    CompileFieldAssign_c1(expr, compile_expression(c, expr.object))

\* Expr::StructLiteral
CompileStructLiteral_c2(expr, c1, c2) ==
    IF ~c1.ok THEN c1 ELSE emit(c2, Op("NewStruct", Len(expr.fields)))

CompileStructLiteral_c1(expr, c1) ==
    CompileStructLiteral_c2(expr, c1, EmitConst(c1, VString(expr.struct_name)))

CompileStructLiteral(c, expr) ==
    CompileStructLiteral_c1(expr, compile_expressions(c, [i \in 1..Len(expr.fields) |-> expr.fields[i].value]))

\* self.emit(OpCode::FieldGet(0), 0): `let _ = field;`
FieldGetOp(c, expr) == Op("FieldGet", 0)

compile_expression_c1(expr, c1) ==
    IF ~c1.ok THEN c1 ELSE emit(NoteField(c1, expr.field, FieldGetOp(c1, expr)), FieldGetOp(c1, expr))

compile_expression_c2(expr, c2) ==
    IF ~c2.ok THEN c2 ELSE emit(c2, BinaryOpcode(expr.operator))

compile_expression_c12(expr, c1) ==
    IF ~c1.ok THEN c1 ELSE emit(c1, Op0(expr.operator))

compile_expression_c13(expr, c1) ==
    IF ~c1.ok THEN c1 ELSE EmitStore(c1, expr.name)

compile_expression_c22(expr, c2) ==
    IF ~c2.ok THEN c2 ELSE emit(c2, Op("Call", Len(expr.arguments)))

compile_expression_c14(expr, c1) ==
    IF ~c1.ok THEN c1 ELSE emit(c1, Op("NewArray", Len(expr.elements)))

compile_expression_c23(c2) ==
    IF ~c2.ok THEN c2 ELSE emit(c2, Op0("ArrayGet"))

compile_expression(c, expr) ==
    IF ~c.ok THEN c
    ELSE CASE expr.k = "StructLiteral" -> CompileStructLiteral(c, expr)
           [] expr.k = "FieldAccess" ->
                compile_expression_c1(expr, compile_expression(c, expr.object))
           [] expr.k = "FieldAssign" -> CompileFieldAssign(c, expr)
           [] expr.k = "Integer" -> EmitConst(c, VInt(expr.v))
           [] expr.k = "Float" -> EmitConst(c, VFloat(expr.v[1], expr.v[2]))
           [] expr.k = "String" -> EmitConst(c, VString(expr.v))
           [] expr.k = "Boolean" -> EmitConst(c, VBool(expr.v))
           [] expr.k = "Identifier" -> EmitLoad(c, expr.name)
           [] expr.k = "Binary" /\ expr.operator \in {"And", "Or"} -> CompileShortCircuit(c, expr)
           [] expr.k = "Binary" /\ expr.operator \notin {"And", "Or"} ->
                compile_expression_c2(expr, compile_expression(compile_expression(c, expr.left), expr.right))
           [] expr.k = "Unary" ->
                compile_expression_c12(expr, compile_expression(c, expr.operand))
           [] expr.k = "Assign" ->
                compile_expression_c13(expr, compile_expression(c, expr.value))
           [] expr.k = "Call" ->
                compile_expression_c22(expr, compile_expressions(compile_expression(c, expr.callee), expr.arguments))
           [] expr.k = "Array" ->
                compile_expression_c14(expr, compile_expressions(c, expr.elements))
           [] expr.k = "Index" ->
                compile_expression_c23(compile_expression(compile_expression(c, expr.object), expr.index))
           [] OTHER -> CompileIndexAssign(c, expr)


\* for stmt in stmts { compile_statement(stmt)? }
compile_statements(c, stmts) ==
    IF ~c.ok \/ stmts = <<>> THEN c
    ELSE compile_statements(compile_statement(c, Head(stmts)), Tail(stmts))

\* if scope_depth == 0 { StoreGlobal(name); Pop } else { add_local(name, mutable) }
DeclareVariable(c, name, mutable) ==
    LET ic == identifier_constant(c, name)
    IN IF c.scope_depth = 0
       THEN emit(emit(ic.c, Op("StoreGlobal", ic.idx)), Op0("Pop"))
       ELSE add_local(c, name, mutable)

EndLocalName == <<"_", "_", "e", "n", "d", "_", "_">>

\* Stmt::VarDeclaration
CompileVarDeclaration_c1(stmt, c1) ==
    IF ~c1.ok THEN c1 ELSE DeclareVariable(NoteTyped(c1), stmt.name, stmt.mutable)

CompileVarDeclaration(c, stmt) ==
    CompileVarDeclaration_c1(stmt, IF stmt.initializer # <<>> THEN compile_expression(c, stmt.initializer[1]) ELSE emit(c, Op0("LoadNull")))

\* Stmt::FnDeclaration
CompileFnDeclaration_c1(c, stmt, f, c1) ==
    IF ~f.ok THEN [c EXCEPT !.ok = FALSE, !.err = f.err]
    ELSE DeclareVariable(c1, stmt.name, FALSE)

CompileFnDeclaration_f(c, stmt, f) ==
    CompileFnDeclaration_c1(c, stmt, f, EmitConst([c EXCEPT !.site = f.site], VFunction(f.function)))

CompileFnDeclaration(c, stmt) ==
    CompileFnDeclaration_f(c, stmt, compile_function(c.site, stmt.name, stmt.parameters, stmt.body))

\* Stmt::If
CompileIf_c7(c1, c3, else_jump, c6, c7) ==
    IF ~c1.ok THEN c1
    ELSE IF ~c3.ok THEN c3
    ELSE IF ~c6.ok THEN c6
    ELSE patch_jump(c7, else_jump)

CompileIf_c6(stmt, c1, c3, else_jump, c5, c6) ==
    CompileIf_c7(c1, c3, else_jump, c6, IF stmt.else_branch = <<>> THEN c5 ELSE end_scope(c6))

CompileIf_c5(stmt, c1, c3, else_jump, c5) ==
    CompileIf_c6(stmt, c1, c3, else_jump, c5, IF stmt.else_branch = <<>> THEN c5 ELSE compile_statements(begin_scope(c5), stmt.else_branch[1]))

CompileIf_else_jump(stmt, c1, then_jump, c3, c4, else_jump) ==
    CompileIf_c5(stmt, c1, c3, else_jump, emit(patch_jump(emit_jump(c4, Op("Jump", 0)), then_jump), Op0("Pop")))

CompileIf_c4(stmt, c1, then_jump, c3, c4) ==
    CompileIf_else_jump(stmt, c1, then_jump, c3, c4, Len(c4.chunk.code))

CompileIf_c3(stmt, c1, then_jump, c3) ==
    CompileIf_c4(stmt, c1, then_jump, c3, end_scope(c3))

CompileIf_c2(stmt, c1, then_jump, c2) ==
    CompileIf_c3(stmt, c1, then_jump, compile_statements(begin_scope(c2), stmt.then_branch))

CompileIf_then_jump(stmt, c1, then_jump) ==
    CompileIf_c2(stmt, c1, then_jump, emit(emit_jump(c1, Op("JumpIfFalse", 0)), Op0("Pop")))

CompileIf_c1(stmt, c1) ==
    CompileIf_then_jump(stmt, c1, Len(c1.chunk.code))

CompileIf(c, stmt) ==
    CompileIf_c1(stmt, compile_expression(c, stmt.condition))

\* loop_breaks.pop() and the patching of its (always empty) list, loop_starts.pop()
EndLoop(c) == [c EXCEPT !.loop_breaks = Front(@), !.loop_starts = Front(@)]

BeginLoop(c) == [c EXCEPT !.loop_starts = Append(@, Len(c.chunk.code)), !.loop_breaks = Append(@, <<>>)]

\* the note of a loop whose loop_start is the current end of the code
NoteLoop(c, kind) == [c EXCEPT !.chunk.lp = Append(@, [start |-> Len(c.chunk.code), kind |-> kind])]

\* Stmt::While
CompileWhile_c5(c1, c3, c5) ==
    IF ~c1.ok THEN c1
    ELSE IF ~c3.ok THEN c3
    ELSE EndLoop(c5)

CompileWhile_c4(c1, exit_jump, c3, c4) ==
    CompileWhile_c5(c1, c3, emit(patch_jump(c4, exit_jump), Op0("Pop")))

CompileWhile_c3(loop_start, c1, exit_jump, c3) ==
    CompileWhile_c4(c1, exit_jump, c3, emit(end_scope(c3), Op("Loop", loop_start)))

CompileWhile_c2(stmt, loop_start, c1, exit_jump, c2) ==
    CompileWhile_c3(loop_start, c1, exit_jump, compile_statements(begin_scope(c2), stmt.body))

CompileWhile_exit_jump(stmt, loop_start, c1, exit_jump) ==
    CompileWhile_c2(stmt, loop_start, c1, exit_jump, emit(emit_jump(c1, Op("JumpIfFalse", 0)), Op0("Pop")))

CompileWhile_c1(stmt, loop_start, c1) ==
    CompileWhile_exit_jump(stmt, loop_start, c1, Len(c1.chunk.code))

CompileWhile_loop_start(c, stmt, loop_start) ==
    CompileWhile_c1(stmt, loop_start, compile_expression(BeginLoop(NoteLoop(c, "While")), stmt.condition))

CompileWhile(c, stmt) ==
    CompileWhile_loop_start(c, stmt, Len(c.chunk.code))

\* Stmt::For
CompileFor_c10(c1, c2, c3, c4, c7, c10) ==
    IF ~c1.ok THEN c1
    ELSE IF ~c2.ok THEN c2
    ELSE IF ~c3.ok THEN c3
    ELSE IF ~c4.ok THEN c4
    ELSE IF ~c7.ok THEN c7
    ELSE end_scope(EndLoop(c10))

CompileFor_c9(c1, c2, c3, c4, loop_start, exit_jump, c7, c9) ==
    CompileFor_c10(c1, c2, c3, c4, c7, emit(patch_jump(emit(c9, Op("Loop", loop_start)), exit_jump), Op0("Pop")))

CompileFor_c8(c1, c2, c3, c4, loop_start, var_slot, exit_jump, c7, c8) ==
    CompileFor_c9(c1, c2, c3, c4, loop_start, exit_jump, c7, emit(emit(emit(c8, Op0("Add")), Op("StoreLocal", var_slot)), Op0("Pop")))

CompileFor_c7(c1, c2, c3, c4, loop_start, var_slot, exit_jump, c7) ==
    CompileFor_c8(c1, c2, c3, c4, loop_start, var_slot, exit_jump, c7, EmitConst(emit(c7, Op("LoadLocal", var_slot)), VInt(1)))

CompileFor_c6(stmt, c1, c2, c3, c4, loop_start, var_slot, exit_jump, c6) ==
    CompileFor_c7(c1, c2, c3, c4, loop_start, var_slot, exit_jump, compile_statements(c6, stmt.body))

CompileFor_exit_jump(stmt, c1, c2, c3, c4, loop_start, var_slot, c5, exit_jump) ==
    CompileFor_c6(stmt, c1, c2, c3, c4, loop_start, var_slot, exit_jump, emit(emit_jump(c5, Op("JumpIfFalse", 0)), Op0("Pop")))

CompileFor_c5(stmt, c1, c2, c3, c4, loop_start, var_slot, c5) ==
    CompileFor_exit_jump(stmt, c1, c2, c3, c4, loop_start, var_slot, c5, Len(c5.chunk.code))

CompileFor_var_slot(stmt, c1, c2, c3, end_local, c4, loop_start, var_slot) ==
    CompileFor_c5(stmt, c1, c2, c3, c4, loop_start, var_slot,
        emit(emit(emit(BeginLoop(NoteLoop(c4, "For")), Op("LoadLocal", var_slot)), Op("LoadLocal", end_local)), Op0("Less")))

CompileFor_loop_start(stmt, c1, c2, c3, end_local, c4, loop_start) ==
    CompileFor_var_slot(stmt, c1, c2, c3, end_local, c4, loop_start, resolve_local(c4, stmt.variable))

CompileFor_c4(stmt, c1, c2, c3, end_local, c4) ==
    CompileFor_loop_start(stmt, c1, c2, c3, end_local, c4, Len(c4.chunk.code))

CompileFor_end_local(stmt, c1, c2, c3, end_local) ==
    CompileFor_c4(stmt, c1, c2, c3, end_local, add_local(c3, EndLocalName, FALSE))

CompileFor_c3(stmt, c1, c2, c3) ==
    CompileFor_end_local(stmt, c1, c2, c3, Len(c3.locals))

CompileFor_c2(stmt, c1, c2) ==
    CompileFor_c3(stmt, c1, c2, compile_expression(c2, stmt.end))

CompileFor_c1(stmt, c1) ==
    CompileFor_c2(stmt, c1, add_local(c1, stmt.variable, TRUE))

CompileFor(c, stmt) ==
    CompileFor_c1(stmt, compile_expression(begin_scope(c), stmt.start))

\* the match of compile_statement
CompileStmtArm_c1(c1) ==
    IF ~c1.ok THEN c1 ELSE emit(c1, Op0("Pop"))

CompileStmtArm_c12(c1) ==
    IF ~c1.ok THEN c1 ELSE emit(c1, Op0("Return"))

CompileStmtArm_c13(c1) ==
    IF ~c1.ok THEN c1 ELSE emit(NoteTyped(c1), Op0("Print"))

CompileStmtArm_c14(c1) ==
    IF ~c1.ok THEN c1 ELSE end_scope(c1)

\* Stmt::StructDeclaration: self.structs.insert(name, StructDef { fields: field_names })
CompileStructDeclaration(c, stmt) ==
    [c EXCEPT !.structs = [n \in (DOMAIN @) \cup {stmt.name} |->
                              IF n = stmt.name THEN [i \in 1..Len(stmt.fields) |-> stmt.fields[i].name] ELSE @[n]]]

CompileStmtArm(c, stmt) ==
    CASE stmt.k = "Expression" ->
           CompileStmtArm_c1(compile_expression(c, stmt.expr))
      [] stmt.k = "StructDeclaration" -> CompileStructDeclaration(c, stmt)
      [] stmt.k = "VarDeclaration" -> CompileVarDeclaration(c, stmt)
      [] stmt.k = "FnDeclaration" -> CompileFnDeclaration(c, stmt)
      [] stmt.k = "Return" ->
           CompileStmtArm_c12(IF stmt.value # <<>> THEN compile_expression(c, stmt.value[1]) ELSE emit(c, Op0("LoadNull")))
      [] stmt.k = "If" -> CompileIf(c, stmt)
      [] stmt.k = "While" -> CompileWhile(c, stmt)
      [] stmt.k = "For" -> CompileFor(c, stmt)
      [] stmt.k = "Print" ->
           CompileStmtArm_c13(compile_expression(c, stmt.value))
      [] OTHER ->
           CompileStmtArm_c14(compile_statements(begin_scope(c), stmt.statements))

\* Compiler::compile_statement; the span of the statement's code is noted
compile_statement_r(c, stmt, r) ==
    IF ~c.ok THEN c
    ELSE IF ~r.ok THEN r
    ELSE [r EXCEPT !.chunk.spans = Append(@, [start |-> Len(c.chunk.code), end |-> Len(r.chunk.code), kind |-> stmt.k, depth |-> c.scope_depth])]

compile_statement(c, stmt) ==
    compile_statement_r(c, stmt, CompileStmtArm(c, stmt))

\* for param in parameters { add_local(param.name, false)? }
RECURSIVE AddParams(_, _)
AddParams(c, parameters) ==
    IF ~c.ok \/ parameters = <<>> THEN c
    ELSE AddParams(add_local(c, Head(parameters).name, FALSE), Tail(parameters))

\* Compiler::compile_function: [ok, err, function, site]
compile_function_fc2(name, parameters, fc1, fc2) ==
    IF ~fc1.ok THEN [ok |-> FALSE, err |-> fc1.err, function |-> 0, site |-> fc1.site]
    ELSE [ok |-> TRUE, err |-> "none", site |-> fc2.site,
          function |-> [name |-> name, arity |-> Len(parameters), chunk |-> fc2.chunk, locals_count |-> Len(fc2.locals)]]

compile_function_fc1(name, parameters, fc1) ==
    compile_function_fc2(name, parameters, fc1, emit(emit(fc1, Op0("LoadNull")), Op0("Return")))

compile_function_fc0(name, parameters, body, fc0) ==
    compile_function_fc1(name, parameters, compile_statements(AddParams(fc0, parameters), body))

compile_function(site, name, parameters, body) ==
    compile_function_fc0(name, parameters, body, begin_scope([NewCompiler EXCEPT !.site = site]))

\* Compiler::compile
compile_c1(c1) ==
    IF ~c1.ok THEN c1 ELSE emit(c1, Op0("Halt"))

compile(program) ==
    compile_c1(compile_statements(NewCompiler, program))


(***************************************************************************)
(* ast/mod.rs: the methods of Type.                                        *)
(***************************************************************************)
is_numeric(t) == t.k \in {"Int", "Float"}

RECURSIVE is_compatible_with(_, _)
is_compatible_with(a, b) ==
    IF a = b THEN TRUE
    ELSE IF is_numeric(a) /\ is_numeric(b) THEN TRUE
    ELSE IF a.k = "Unknown" \/ b.k = "Unknown" THEN TRUE
    ELSE IF a.k = "Array" /\ b.k = "Array" THEN is_compatible_with(a.of[1], b.of[1])
    ELSE FALSE

\* Type::get_element_type as an Option
get_element_type(t) == IF t.k = "Array" THEN <<t.of[1]>> ELSE <<>>

(***************************************************************************)
(* type_checker/mod.rs.  A checker state is the record [scopes,            *)
(* current_function_return_type, loop_depth, ok, err, types, assigns];     *)
(* ok = FALSE is the Err a `?` propagates.  A Symbol also remembers how    *)
(* its name was declared (origin); types lists, in program order, the type *)
(* given to every print's value and every declared variable; assigns       *)
(* lists every assignment the checker judged.  The checker reads none of   *)
(* the three.                                                              *)
(***************************************************************************)
\* TypeChecker::new, SymbolTable::new
NewTypeChecker == [scopes |-> <<<<>>>>, current_function_return_type |-> <<>>, loop_depth |-> 0, ok |-> TRUE, err |-> "none", types |-> <<>>, assigns |-> <<>>, checks |-> {}]

push_scope(tc) == [tc EXCEPT !.scopes = Append(@, <<>>)]

pop_scope(tc) == [tc EXCEPT !.scopes = Front(@)]

\* SymbolTable::define
define(tc, name, symbol_type, is_mutable, origin) ==
    LET top == Len(tc.scopes)
        sym == [symbol_type |-> symbol_type, is_mutable |-> is_mutable, origin |-> origin]
    IN IF top = 0 THEN tc
       ELSE [tc EXCEPT !.scopes[top] = [n \in (DOMAIN @) \cup {name} |-> IF n = name THEN sym ELSE @[n]]]

\* SymbolTable::get as an Option
get(tc, name) ==
    LET hits == {i \in 1..Len(tc.scopes) : name \in DOMAIN tc.scopes[i]}
    IN IF hits = {} THEN <<>> ELSE <<tc.scopes[CHOOSE i \in hits : \A j \in hits : j <= i][name]>>

\* what stands for the result of a call of resolve_type that does not
\* return: the recursion has no base case left, so the call exhausts the
\* stack (or loops for ever where the tail call is compiled to a jump)
Diverges == [k |-> "Diverges", of |-> <<>>]

IsDiverges(t) == t.k = "Diverges"

\* TypeChecker::resolve_type.  No value of Type::Struct can be built from
\* source text, so that arm has nothing to act on.  The symbol table does
\* not change during a call, so the recursion comes back to a name it is
\* already resolving exactly when it never ends; `seen` holds those names.
RECURSIVE ResolveFrom(_, _, _)
ResolveFrom_parts(t, parts) ==
    IF \E i \in 1..Len(parts) : IsDiverges(parts[i]) THEN Diverges ELSE [t EXCEPT !.of = parts]

ResolveFrom_symbol(tc, t, seen, name, symbol) ==
    IF symbol = <<>> THEN t
    ELSE IF name \in seen THEN Diverges
    ELSE ResolveFrom(tc, symbol[1].symbol_type, seen \cup {name})

ResolveFrom(tc, t, seen) ==
    CASE t.k = "Named" -> ResolveFrom_symbol(tc, t, seen, t.of[1].of, get(tc, t.of[1].of))
      [] t.k \in {"Array", "Function"} -> ResolveFrom_parts(t, [i \in 1..Len(t.of) |-> ResolveFrom(tc, t.of[i], seen)])
      [] OTHER -> t

resolve_type(tc, t) == ResolveFrom(tc, t, {})

\* the checker at a call of resolve_type that does not return
NoReturn == "resolve_type does not return"

TOk(tc, ty) == [tc |-> tc, ty |-> ty]

TErr(tc, kind) == [tc |-> [tc EXCEPT !.ok = FALSE, !.err = kind], ty |-> TUnknown]

RECURSIVE infer_type(_, _)
RECURSIVE InferArgs(_, _, _, _)
RECURSIVE InferElements(_, _, _)

\* a note of a test the checker made of operand types: the construct, the
\* types it looked at and whether it let them pass
Note(tc, construct, operands, accepted) ==
    [tc EXCEPT !.checks = @ \cup {[construct |-> construct, operands |-> operands, accepted |-> accepted]}]

\* the note put in the checker of a typed result, where the test was made
NoteIn(v, made, construct, operands, accepted) ==
    IF made THEN [v EXCEPT !.tc = Note(@, construct, operands, accepted)] ELSE v

\* Add | Subtract | Multiply | Divide
ArithType(operator, left_type, right_type) ==
    IF left_type = TUnknown \/ right_type = TUnknown THEN <<TUnknown>>
    ELSE IF is_numeric(left_type) /\ is_numeric(right_type)
         THEN (IF left_type = TFloat \/ right_type = TFloat THEN <<TFloat>> ELSE <<TInt>>)
    ELSE IF operator = "Add" /\ left_type = TString /\ right_type = TString THEN <<TString>>
    ELSE <<>>

\* the match on the operator of Expr::Binary: the type, or <<>> for InvalidOperation
BinaryType(operator, left_type, right_type) ==
    CASE operator \in {"Add", "Subtract", "Multiply", "Divide"} -> ArithType(operator, left_type, right_type)
      [] operator = "Modulo" ->
           IF left_type = TUnknown \/ right_type = TUnknown THEN <<TUnknown>>
           ELSE IF left_type = TInt /\ right_type = TInt THEN <<TInt>>
           ELSE <<>>
      [] operator \in {"Equal", "NotEqual", "Less", "LessEqual", "Greater", "GreaterEqual"} -> <<TBool>>
      [] OTHER ->
           IF left_type = TUnknown \/ right_type = TUnknown THEN <<TUnknown>>
           ELSE IF left_type = TBool /\ right_type = TBool THEN <<TBool>>
           ELSE <<>>

InferBinary_t(l, r, t) ==
    IF ~l.tc.ok THEN l
    ELSE IF ~r.tc.ok THEN r
    ELSE IF t = <<>> THEN TErr(r.tc, "InvalidOperation")
    ELSE TOk(r.tc, t[1])

InferBinary_r(expr, l, r) ==
    InferBinary_t(l, NoteIn(r, l.tc.ok /\ r.tc.ok, expr.operator, <<l.ty, r.ty>>, BinaryType(expr.operator, l.ty, r.ty) # <<>>),
        BinaryType(expr.operator, l.ty, r.ty))

InferBinary_l(expr, l) ==
    InferBinary_r(expr, l, infer_type(l.tc, expr.right))

InferBinary(tc, expr) ==
    InferBinary_l(expr, infer_type(tc, expr.left))

InferUnary_o(expr, o) ==
    IF ~o.tc.ok THEN o
    ELSE IF expr.operator = "Not" THEN (IF o.ty = TBool THEN TOk(o.tc, TBool) ELSE TErr(o.tc, "TypeMismatch"))
    ELSE IF is_numeric(o.ty) THEN o
    ELSE TErr(o.tc, "TypeMismatch")

InferUnary_noted(expr, o, r) ==
    NoteIn(r, o.tc.ok, expr.operator, <<o.ty>>, r.tc.ok)

InferUnary_operand(expr, o) ==
    InferUnary_noted(expr, o, InferUnary_o(expr, o))

InferUnary(tc, expr) ==
    InferUnary_operand(expr, infer_type(tc, expr.operand))

\* Expr::Assign without the test of symbol.is_mutable
AssignVerdict_any_binding(symbol, resolved_symbol, resolved_value) ==
    IF symbol = <<>> THEN "UndefinedVariable"
    ELSE IF resolved_symbol # TUnknown /\ resolved_value # TUnknown /\ ~is_compatible_with(resolved_symbol, resolved_value) THEN "TypeMismatch"
    ELSE "ok"

\* the verdict of Expr::Assign once the value has its type
AssignVerdict_resolved_value(symbol, resolved_symbol, resolved_value) ==
    IF symbol = <<>> THEN "UndefinedVariable"
    ELSE IF ~symbol[1].is_mutable THEN "ImmutableAssignment"
    ELSE IF IsDiverges(resolved_symbol) \/ IsDiverges(resolved_value) THEN NoReturn
    ELSE IF resolved_symbol # TUnknown /\ resolved_value # TUnknown /\ ~is_compatible_with(resolved_symbol, resolved_value) THEN "TypeMismatch"
    ELSE "ok"

AssignVerdict_resolved_symbol(tc, value_type, symbol, resolved_symbol) ==
    AssignVerdict_resolved_value(symbol, resolved_symbol, resolve_type(tc, value_type))

AssignVerdict_symbol(tc, value_type, symbol) ==
    AssignVerdict_resolved_symbol(tc, value_type, symbol, resolve_type(tc, symbol[1].symbol_type))

AssignVerdict(tc, name, value_type) ==
    AssignVerdict_symbol(tc, value_type, get(tc, name))

InferAssign_logged(v, verdict, logged) ==
    IF ~v.tc.ok THEN v
    ELSE IF verdict = "ok" THEN TOk(logged, v.ty)
    ELSE TErr(logged, verdict)

InferAssign_entry(v, verdict, entry) ==
    InferAssign_logged(v, verdict, [v.tc EXCEPT !.assigns = Append(@, entry)])

InferAssign_symbol(expr, v, verdict, symbol) ==
    InferAssign_entry(v, verdict,
        [name |-> expr.name, bound |-> symbol # <<>>,
         origin |-> IF symbol = <<>> THEN "none" ELSE symbol[1].origin,
         symbol_type |-> IF symbol = <<>> THEN TUnknown ELSE resolve_type(v.tc, symbol[1].symbol_type),
         value_type |-> resolve_type(v.tc, v.ty), verdict |-> verdict])

InferAssign_verdict(expr, v, verdict) ==
    InferAssign_symbol(expr, v, verdict, get(v.tc, expr.name))

InferAssign_v(expr, v) ==
    InferAssign_verdict(expr, v, AssignVerdict(v.tc, expr.name, v.ty))

InferAssign(tc, expr) ==
    InferAssign_v(expr, infer_type(tc, expr.value))

ArgNote(a, params, i) ==
    Note(a.tc, "Argument", <<resolve_type(a.tc, params[i]), resolve_type(a.tc, a.ty)>>,
         is_compatible_with(resolve_type(a.tc, params[i]), resolve_type(a.tc, a.ty)))

\* the loop over params.zip(arguments) of Expr::Call
InferArgs_a(tc, params, arguments, i, a) ==
    IF i > Len(arguments) THEN tc
    ELSE IF ~a.tc.ok THEN a.tc
    ELSE IF IsDiverges(resolve_type(a.tc, params[i])) \/ IsDiverges(resolve_type(a.tc, a.ty)) THEN TErr(a.tc, NoReturn).tc
    ELSE IF ~is_compatible_with(resolve_type(a.tc, params[i]), resolve_type(a.tc, a.ty)) THEN TErr(ArgNote(a, params, i), "ArgumentTypeMismatch").tc
    ELSE InferArgs(ArgNote(a, params, i), params, arguments, i + 1)

InferArgs(tc, params, arguments, i) ==
    InferArgs_a(tc, params, arguments, i, infer_type(tc, arguments[i]))

InferCall_checked(tc, expr, symbol, fty, params, checked) ==
    IF expr.callee.k # "Identifier" THEN TOk(tc, TUnknown)
    ELSE IF symbol = <<>> THEN TErr(tc, "UndefinedFunction")
    ELSE IF fty.k # "Function" THEN TErr(tc, "TypeMismatch")
    ELSE IF Len(params) # Len(expr.arguments) THEN TErr(tc, "ArgumentCountMismatch")
    ELSE IF ~checked.ok THEN TErr(checked, checked.err)
    ELSE TOk(checked, fty.of[1])

InferCall_params(tc, expr, symbol, fty, params) ==
    InferCall_checked(tc, expr, symbol, fty, params, InferArgs(tc, params, expr.arguments, 1))

InferCall_fty(tc, expr, symbol, fty) ==
    InferCall_params(IF expr.callee.k = "Identifier" /\ symbol # <<>> THEN Note(tc, "Callee", <<fty>>, fty.k = "Function") ELSE tc,
        expr, symbol, fty, Tail(fty.of))

InferCall_symbol(tc, expr, symbol) ==
    InferCall_fty(tc, expr, symbol, symbol[1].symbol_type)

InferCall(tc, expr) ==
    InferCall_symbol(tc, expr, get(tc, expr.callee.name))

\* the loop over elements.iter().skip(1) of Expr::Array
InferElements_e(tc, first_type, rest, e) ==
    IF rest = <<>> THEN tc
    ELSE IF ~e.tc.ok THEN e.tc
    ELSE IF first_type # e.ty /\ e.ty # TUnknown /\ first_type # TUnknown THEN TErr(e.tc, "TypeMismatch").tc
    ELSE InferElements(e.tc, first_type, Tail(rest))

InferElements(tc, first_type, rest) ==
    InferElements_e(tc, first_type, rest, infer_type(tc, Head(rest)))

InferArray_rest(tc, expr, first, rest) ==
    IF expr.elements = <<>> THEN TOk(tc, TUnknown)
    ELSE IF ~first.tc.ok THEN first
    ELSE IF ~rest.ok THEN TErr(rest, rest.err)
    ELSE TOk(rest, TArray(first.ty))

InferArray_first(tc, expr, first) ==
    InferArray_rest(tc, expr, first, InferElements(first.tc, first.ty, Tail(expr.elements)))

InferArray(tc, expr) ==
    InferArray_first(tc, expr, infer_type(tc, expr.elements[1]))

InferIndex_i(o, i) ==
    IF ~o.tc.ok THEN o
    ELSE IF ~i.tc.ok THEN i
    ELSE IF i.ty # TInt /\ i.ty # TUnknown THEN TErr(i.tc, "TypeMismatch")
    ELSE IF get_element_type(o.ty) # <<>> THEN TOk(i.tc, get_element_type(o.ty)[1])
    ELSE TOk(i.tc, TUnknown)

InferIndex_noted(o, i) ==
    InferIndex_i(o, NoteIn(i, o.tc.ok /\ i.tc.ok, "Index", <<i.ty>>, i.ty = TInt \/ i.ty = TUnknown))

InferIndex_o(expr, o) ==
    InferIndex_noted(o, infer_type(o.tc, expr.index))

InferIndex(tc, expr) ==
    InferIndex_o(expr, infer_type(tc, expr.object))

InferIndexAssign_resolved_val(o, i, v, element_type, resolved_val) ==
    IF ~o.tc.ok THEN o
    ELSE IF ~i.tc.ok THEN i
    ELSE IF ~v.tc.ok THEN v
    ELSE IF i.ty # TInt /\ i.ty # TUnknown THEN TErr(v.tc, "TypeMismatch")
    ELSE IF element_type # <<>> /\ (IsDiverges(resolve_type(v.tc, element_type[1])) \/ IsDiverges(resolved_val)) THEN TErr(v.tc, NoReturn)
    ELSE IF element_type # <<>> /\ ~is_compatible_with(resolve_type(v.tc, element_type[1]), resolved_val) /\ resolved_val # TUnknown THEN TErr(v.tc, "TypeMismatch")
    ELSE v

InferIndexAssign_element_type(o, i, v, element_type) ==
    InferIndexAssign_resolved_val(o, i, v, element_type, resolve_type(v.tc, v.ty))

InferIndexAssign_noted(o, i, v) ==
    InferIndexAssign_element_type(o, i, v, get_element_type(o.ty))

InferIndexAssign_v(o, i, v) ==
    InferIndexAssign_noted(o, i, NoteIn(v, o.tc.ok /\ i.tc.ok /\ v.tc.ok, "Index", <<i.ty>>, i.ty = TInt \/ i.ty = TUnknown))

InferIndexAssign_i(expr, o, i) ==
    InferIndexAssign_v(o, i, infer_type(i.tc, expr.value))

InferIndexAssign_o(expr, o) ==
    InferIndexAssign_i(expr, o, infer_type(o.tc, expr.index))

InferIndexAssign(tc, expr) ==
    InferIndexAssign_o(expr, infer_type(tc, expr.object))

\* Expr::StructLiteral: the symbol's type is never a Type::Struct, so the
\* fields are not looked at
InferStructLiteral(tc, expr) ==
    LET symbol == get(tc, expr.struct_name)
    IN IF symbol = <<>> THEN TErr(tc, "UndefinedVariable")
       ELSE IF IsDiverges(resolve_type(tc, symbol[1].symbol_type)) THEN TErr(tc, NoReturn)
       ELSE TOk(tc, resolve_type(tc, symbol[1].symbol_type))

\* Expr::FieldAccess: the object's type is never a Type::Struct
InferFieldAccess_o(o) ==
    IF ~o.tc.ok THEN o ELSE TErr(o.tc, "InvalidOperation")

InferFieldAccess(tc, expr) ==
    InferFieldAccess_o(infer_type(tc, expr.object))

\* Expr::FieldAssign: the object's type is never a Type::Struct
InferFieldAssign_v(o, v) ==
    IF ~o.tc.ok THEN o
    ELSE IF ~v.tc.ok THEN v
    ELSE TErr(v.tc, "InvalidOperation")

InferFieldAssign_o(expr, o) ==
    InferFieldAssign_v(o, infer_type(o.tc, expr.value))

InferFieldAssign(tc, expr) ==
    InferFieldAssign_o(expr, infer_type(tc, expr.object))

infer_type(tc, expr) ==
    CASE expr.k = "StructLiteral" -> InferStructLiteral(tc, expr)
      [] expr.k = "FieldAccess" -> InferFieldAccess(tc, expr)
      [] expr.k = "FieldAssign" -> InferFieldAssign(tc, expr)
      [] expr.k = "Integer" -> TOk(tc, TInt)
      [] expr.k = "Float" -> TOk(tc, TFloat)
      [] expr.k = "String" -> TOk(tc, TString)
      [] expr.k = "Boolean" -> TOk(tc, TBool)
      [] expr.k = "Identifier" ->
           IF get(tc, expr.name) # <<>> THEN TOk(tc, get(tc, expr.name)[1].symbol_type)
           ELSE TErr(tc, "UndefinedVariable")
      [] expr.k = "Binary" -> InferBinary(tc, expr)
      [] expr.k = "Unary" -> InferUnary(tc, expr)
      [] expr.k = "Assign" -> InferAssign(tc, expr)
      [] expr.k = "Call" -> InferCall(tc, expr)
      [] expr.k = "Array" -> InferArray(tc, expr)
      [] expr.k = "Index" -> InferIndex(tc, expr)
      [] OTHER -> InferIndexAssign(tc, expr)


RECURSIVE check_statement(_, _)
RECURSIVE check_statements(_, _)

\* for stmt in stmts { check_statement(stmt)? }
check_statements(tc, stmts) ==
    IF ~tc.ok \/ stmts = <<>> THEN tc
    ELSE check_statements(check_statement(tc, Head(stmts)), Tail(stmts))

LogType(tc, ty) == [tc EXCEPT !.types = Append(@, ty)]

\* Stmt::VarDeclaration
CheckVarDeclaration_var_type(stmt, tc1, resolved_annotated, resolved_actual, var_type) ==
    IF ~tc1.ok THEN tc1
    ELSE IF stmt.type_annotation # <<>> /\ (IsDiverges(resolved_annotated) \/ IsDiverges(resolved_actual)) THEN TErr(tc1, NoReturn).tc
    ELSE IF stmt.type_annotation # <<>> /\ stmt.initializer # <<>> /\ ~is_compatible_with(resolved_annotated, resolved_actual) /\ resolved_actual # TUnknown
         THEN TErr(tc1, "TypeMismatch").tc
    ELSE define(LogType(tc1, var_type), stmt.name, var_type, stmt.mutable, stmt.keyword)

CheckVarDeclaration_resolved_actual(stmt, tc1, actual_type, resolved_annotated, resolved_actual) ==
    CheckVarDeclaration_var_type(stmt, tc1, resolved_annotated, resolved_actual,
        IF stmt.type_annotation # <<>> THEN resolved_annotated ELSE actual_type)

CheckVarDeclaration_resolved_annotated(stmt, tc1, actual_type, resolved_annotated) ==
    CheckVarDeclaration_resolved_actual(stmt, tc1, actual_type, resolved_annotated, resolve_type(tc1, actual_type))

CheckVarDeclaration_actual_type(stmt, tc1, actual_type) ==
    CheckVarDeclaration_resolved_annotated(stmt, tc1, actual_type, resolve_type(tc1, stmt.type_annotation[1]))

CheckVarDeclaration_tc1(stmt, init, tc1) ==
    CheckVarDeclaration_actual_type(stmt, tc1, IF stmt.initializer # <<>> THEN init.ty ELSE TNull)

CheckVarDeclaration_init(tc, stmt, init) ==
    CheckVarDeclaration_tc1(stmt, init, IF stmt.initializer # <<>> THEN init.tc ELSE tc)

CheckVarDeclaration(tc, stmt) ==
    CheckVarDeclaration_init(tc, stmt, infer_type(tc, stmt.initializer[1]))

\* p.type_annotation.clone().unwrap_or(Type::Unknown)
ParamType(param) == IF param.type_annotation # <<>> THEN param.type_annotation[1] ELSE TUnknown

RECURSIVE DefineParams(_, _)
DefineParams(tc, parameters) ==
    IF parameters = <<>> THEN tc
    ELSE DefineParams(define(tc, Head(parameters).name, ParamType(Head(parameters)), FALSE, "param"), Tail(parameters))

\* Stmt::FnDeclaration
CheckFnDeclaration_tc3(tc3) ==
    IF ~tc3.ok THEN tc3
    ELSE pop_scope([tc3 EXCEPT !.current_function_return_type = <<>>])

CheckFnDeclaration_tc2(stmt, tc2) ==
    CheckFnDeclaration_tc3(check_statements(DefineParams(tc2, stmt.parameters), stmt.body))

CheckFnDeclaration_tc1(stmt, ret_type, tc1) ==
    CheckFnDeclaration_tc2(stmt, [push_scope(tc1) EXCEPT !.current_function_return_type = <<ret_type>>])

CheckFnDeclaration_ret_type(tc, stmt, param_types, ret_type) ==
    CheckFnDeclaration_tc1(stmt, ret_type, define(tc, stmt.name, TFunction(param_types, ret_type), FALSE, "fn"))

CheckFnDeclaration_param_types(tc, stmt, param_types) ==
    CheckFnDeclaration_ret_type(tc, stmt, param_types, IF stmt.return_type # <<>> THEN stmt.return_type[1] ELSE TUnknown)

CheckFnDeclaration(tc, stmt) ==
    CheckFnDeclaration_param_types(tc, stmt, [i \in 1..Len(stmt.parameters) |-> ParamType(stmt.parameters[i])])

\* Stmt::Return
CheckReturn_resolved_return(tc1, resolved_expected, resolved_return) ==
    IF ~tc1.ok THEN tc1
    ELSE IF tc1.current_function_return_type # <<>> /\ (IsDiverges(resolved_expected) \/ IsDiverges(resolved_return)) THEN TErr(tc1, NoReturn).tc
    ELSE IF tc1.current_function_return_type # <<>> /\ resolved_expected # TUnknown /\ resolved_return # TUnknown /\ ~is_compatible_with(resolved_expected, resolved_return)
         THEN TErr(tc1, "ReturnTypeMismatch").tc
    ELSE tc1

CheckReturn_resolved_expected(tc1, return_type, resolved_expected) ==
    CheckReturn_resolved_return(tc1, resolved_expected, resolve_type(tc1, return_type))

CheckReturn_return_type(tc1, return_type) ==
    CheckReturn_resolved_expected(tc1, return_type, resolve_type(tc1, tc1.current_function_return_type[1]))

CheckReturn_tc1(stmt, v, tc1) ==
    CheckReturn_return_type(tc1, IF stmt.value # <<>> THEN v.ty ELSE TVoid)

CheckReturn_v(tc, stmt, v) ==
    CheckReturn_tc1(stmt, v, IF stmt.value # <<>> THEN v.tc ELSE tc)

CheckReturn(tc, stmt) ==
    CheckReturn_v(tc, stmt, infer_type(tc, stmt.value[1]))

\* push_scope; for stmt in stmts { check_statement(stmt)? }; pop_scope
CheckScoped_tc1(tc1) ==
    IF ~tc1.ok THEN tc1 ELSE pop_scope(tc1)

CheckScoped(tc, stmts) ==
    CheckScoped_tc1(check_statements(push_scope(tc), stmts))

\* Stmt::If
CheckIf_tc1(stmt, c, tc1) ==
    IF ~c.tc.ok THEN c.tc
    ELSE IF c.ty # TBool /\ c.ty # TUnknown THEN TErr(c.tc, "TypeMismatch").tc
    ELSE IF ~tc1.ok THEN tc1
    ELSE IF stmt.else_branch # <<>> THEN CheckScoped(tc1, stmt.else_branch[1])
    ELSE tc1

CheckIf_c(stmt, c) ==
    CheckIf_tc1(stmt, c, CheckScoped(c.tc, stmt.then_branch))

\* the note of the test of a condition's type
NoteCondition(c) == NoteIn(c, c.tc.ok, "Condition", <<c.ty>>, c.ty = TBool \/ c.ty = TUnknown)

CheckIf(tc, stmt) ==
    CheckIf_c(stmt, NoteCondition(infer_type(tc, stmt.condition)))

\* Stmt::While
CheckWhile_tc1(c, tc1) ==
    IF ~c.tc.ok THEN c.tc
    ELSE IF c.ty # TBool /\ c.ty # TUnknown THEN TErr(c.tc, "TypeMismatch").tc
    ELSE IF ~tc1.ok THEN tc1
    ELSE [tc1 EXCEPT !.loop_depth = @ - 1]

CheckWhile_c(stmt, c) ==
    CheckWhile_tc1(c, CheckScoped([c.tc EXCEPT !.loop_depth = @ + 1], stmt.body))

CheckWhile(tc, stmt) ==
    CheckWhile_c(stmt, NoteCondition(infer_type(tc, stmt.condition)))

\* Stmt::For
CheckFor_tc2(s, e, tc2) ==
    IF ~s.tc.ok THEN s.tc
    ELSE IF ~e.tc.ok THEN e.tc
    ELSE IF s.ty # TInt /\ s.ty # TUnknown THEN TErr(e.tc, "TypeMismatch").tc
    ELSE IF e.ty # TInt /\ e.ty # TUnknown THEN TErr(e.tc, "TypeMismatch").tc
    ELSE IF ~tc2.ok THEN tc2
    ELSE [pop_scope(tc2) EXCEPT !.loop_depth = @ - 1]

CheckFor_tc1(stmt, s, e, tc1) ==
    CheckFor_tc2(s, e, check_statements(tc1, stmt.body))

CheckFor_e(stmt, s, e) ==
    CheckFor_tc1(stmt, s, e, define(push_scope([e.tc EXCEPT !.loop_depth = @ + 1]), stmt.variable, TInt, TRUE, "for"))

\* the notes of the tests of the bounds' types: the end is looked at only
\* once the start has passed
NoteBounds(s, e) ==
    NoteIn(NoteIn(e, s.tc.ok /\ e.tc.ok, "ForBound", <<s.ty>>, s.ty = TInt \/ s.ty = TUnknown),
           s.tc.ok /\ e.tc.ok /\ (s.ty = TInt \/ s.ty = TUnknown), "ForBound", <<e.ty>>, e.ty = TInt \/ e.ty = TUnknown)

CheckFor_s(stmt, s) ==
    CheckFor_e(stmt, s, NoteBounds(s, infer_type(s.tc, stmt.end)))

CheckFor(tc, stmt) ==
    CheckFor_s(stmt, infer_type(tc, stmt.start))

\* TypeChecker::check_statement
check_statement_v(v) ==
    IF ~v.tc.ok THEN v.tc ELSE LogType(v.tc, v.ty)

check_statement(tc, stmt) ==
    CASE stmt.k = "Expression" -> infer_type(tc, stmt.expr).tc
      [] stmt.k = "VarDeclaration" -> CheckVarDeclaration(tc, stmt)
      [] stmt.k = "FnDeclaration" -> CheckFnDeclaration(tc, stmt)
      [] stmt.k = "Return" -> CheckReturn(tc, stmt)
      [] stmt.k = "If" -> CheckIf(tc, stmt)
      [] stmt.k = "While" -> CheckWhile(tc, stmt)
      [] stmt.k = "For" -> CheckFor(tc, stmt)
      [] stmt.k = "Print" ->
           check_statement_v(infer_type(tc, stmt.value))
      [] OTHER -> CheckScoped(tc, stmt.statements)

\* TypeChecker::check
check(program) == check_statements(NewTypeChecker, program)


(***************************************************************************)
(* lexer/mod.rs, lexer/token.rs.  The input is a sequence of characters,   *)
(* position is 0-based; a Token is [token_type, value].                    *)
(***************************************************************************)
Digits == {"0", "1", "2", "3", "4", "5", "6", "7", "8", "9"}

Letters == {"a", "b", "c", "d", "e", "f", "g", "h", "i", "j", "k", "l", "m", "n", "o", "p", "q", "r", "s", "t", "u", "v", "w", "x", "y", "z", "A", "B", "C", "D", "E", "F", "G", "H", "I", "J", "K", "L", "M", "N", "O", "P", "Q", "R", "S", "T", "U", "V", "W", "X", "Y", "Z"}

Whitespace == {" ", "\n", "\t", "\r"}

Token(token_type, value) == [token_type |-> token_type, value |-> value]

\* TokenType::get_keyword as an Option
get_keyword(word) ==
    CASE word = <<"l", "e", "t">> -> <<"Let">>
      [] word = <<"v", "a", "r">> -> <<"Var">>
      [] word = <<"f", "n">> -> <<"Fn">>
      [] word = <<"r", "e", "t", "u", "r", "n">> -> <<"Return">>
      [] word = <<"i", "f">> -> <<"If">>
      [] word = <<"e", "l", "s", "e">> -> <<"Else">>
      [] word = <<"w", "h", "i", "l", "e">> -> <<"While">>
      [] word = <<"f", "o", "r">> -> <<"For">>
      [] word = <<"i", "n">> -> <<"In">>
      [] word = <<"t", "r", "u", "e">> -> <<"True">>
      [] word = <<"f", "a", "l", "s", "e">> -> <<"False">>
      [] word = <<"p", "r", "i", "n", "t">> -> <<"Print">>
      [] word = <<"i", "n", "t">> -> <<"Int">>
      [] word = <<"i", "n", "t", "6", "4">> -> <<"Int64">>
      [] word = <<"f", "l", "o", "a", "t">> -> <<"Float64">>
      [] word = <<"s", "t", "r", "i", "n", "g">> -> <<"String64">>
      [] word = <<"b", "o", "o", "l">> -> <<"Bool">>
      [] word = <<"v", "o", "i", "d">> -> <<"Void">>
      [] word = <<"n", "u", "l", "l">> -> <<"Null">>
      [] OTHER -> <<>>

\* input.get(position) as an Option
CharAt(input, position) == IF position < Len(input) THEN <<input[position + 1]>> ELSE <<>>

\* input[start..end]
Slice(input, start, end) == SubSeq(input, start + 1, end)

\* Lexer::skip_whitespace: the position it stops at
RECURSIVE skip_whitespace(_, _)
skip_whitespace(input, position) ==
    IF CharAt(input, position) # <<>> /\ CharAt(input, position)[1] \in Whitespace
    THEN skip_whitespace(input, position + 1)
    ELSE position

\* the while loop of skip_comment
RECURSIVE SkipToLineEnd(_, _)
SkipToLineEnd(input, position) ==
    IF CharAt(input, position) # <<>> /\ CharAt(input, position) # <<"\n">>
    THEN SkipToLineEnd(input, position + 1)
    ELSE position

AtComment(input, position) == CharAt(input, position) = <<"/">> /\ CharAt(input, position + 1) = <<"/">>

\* Lexer::skip_comment
skip_comment(input, position) == IF AtComment(input, position) THEN SkipToLineEnd(input, position) + 1 ELSE position

\* the loop that opens next_token
RECURSIVE SkipTrivia(_, _)
SkipTrivia(input, position) ==
    LET p == skip_whitespace(input, position)
    IN IF AtComment(input, p) THEN SkipTrivia(input, skip_comment(input, p)) ELSE p

\* the loop of read_number: [position, has_dot]
RECURSIVE ScanNumber(_, _, _)
ScanNumber(input, position, has_dot) ==
    LET ch == CharAt(input, position)
        next == CharAt(input, position + 1)
    IN IF ch # <<>> /\ ch[1] \in Digits THEN ScanNumber(input, position + 1, has_dot)
       ELSE IF ch = <<".">> /\ ~has_dot /\ next # <<>> /\ next[1] \in Digits THEN ScanNumber(input, position + 1, TRUE)
       ELSE [position |-> position, has_dot |-> has_dot]

\* every reader returns [token, position, panic]
Read(token, position) == [token |-> token, position |-> position, panic |-> FALSE]

read_number(input, start) ==
    LET r == ScanNumber(input, start, FALSE)
    IN Read(Token(IF r.has_dot THEN "Float" ELSE "Integer", Slice(input, start, r.position)), r.position)

RECURSIVE ScanIdentifier(_, _)
ScanIdentifier(input, position) ==
    LET ch == CharAt(input, position)
    IN IF ch # <<>> /\ ch[1] \in Letters \cup Digits \cup {"_"} THEN ScanIdentifier(input, position + 1) ELSE position

read_identifier(input, start) ==
    LET end == ScanIdentifier(input, start)
        value == Slice(input, start, end)
    IN Read(Token(IF get_keyword(value) # <<>> THEN get_keyword(value)[1] ELSE "Identifier", value), end)

\* the loop of read_string: a backslash skips the character after it
RECURSIVE ScanString(_, _)
ScanString(input, position) ==
    LET ch == CharAt(input, position)
    IN IF ch = <<>> \/ ch = <<"\"">> THEN position
       ELSE IF ch = <<"\\">> THEN ScanString(input, position + 2)
       ELSE ScanString(input, position + 1)

\* the slice input[start..position] panics when position is past the end
read_string(input, quote) ==
    LET start == quote + 1
        end == ScanString(input, start)
    IN IF end > Len(input) THEN [token |-> Token("Unknown", <<>>), position |-> end, panic |-> TRUE]
       ELSE Read(Token("String", Slice(input, start, end)), end + 1)

\* the operators of two characters: first character, second, type, else type
TwoCharOps == <<
    <<"=", "=", "EqualEqual", "Equal">>,
    <<"!", "=", "BangEqual", "Bang">>,
    <<"<", "=", "LessEqual", "Less">>,
    <<">", "=", "GreaterEqual", "Greater">>,
    <<"&", "&", "And", "Unknown">>,
    <<"|", "|", "Or", "Unknown">>,
    <<".", ".", "DotDot", "Dot">> >>

\* the single characters of the match of next_token
OneCharOps == <<
    <<"+", "Plus">>, <<"-", "Minus">>, <<"*", "Star">>, <<"/", "Slash">>, <<"%", "Percent">>,
    <<"(", "LeftParen">>, <<")", "RightParen">>, <<"{", "LeftBrace">>, <<"}", "RightBrace">>,
    <<"[", "LeftBracket">>, <<"]", "RightBracket">>, <<",", "Comma">>, <<";", "Semicolon">>, <<":", "Colon">> >>

\* the `let token = match ch { ... }; self.advance(); token` of next_token
ReadOperator(input, position) ==
    LET ch == input[position + 1]
        two == {i \in 1..Len(TwoCharOps) : TwoCharOps[i][1] = ch}
        one == {i \in 1..Len(OneCharOps) : OneCharOps[i][1] = ch}
        t == TwoCharOps[CHOOSE i \in two : TRUE]
    IN IF two # {}
       THEN (IF CharAt(input, position + 1) = <<t[2]>>
             THEN Read(Token(t[3], <<ch, t[2]>>), position + 2)
             ELSE Read(Token(t[4], <<ch>>), position + 1))
       ELSE IF one # {} THEN Read(Token(OneCharOps[CHOOSE i \in one : TRUE][2], <<ch>>), position + 1)
       ELSE Read(Token("Unknown", <<ch>>), position + 1)

\* Lexer::next_token
next_token(input, position) ==
    LET p == SkipTrivia(input, position)
        ch == CharAt(input, p)
    IN IF ch = <<>> THEN Read(Token("EOF", <<>>), p)
       ELSE IF ch[1] \in Digits THEN read_number(input, p)
       ELSE IF ch[1] \in Letters \cup {"_"} THEN read_identifier(input, p)
       ELSE IF ch = <<"\"">> THEN read_string(input, p)
       ELSE ReadOperator(input, p)

\* the loop of tokenize: [tokens, panic]
RECURSIVE TokenizeFrom(_, _, _)
TokenizeFrom(input, position, acc) ==
    LET r == next_token(input, position)
    IN IF r.panic THEN [tokens |-> acc, panic |-> TRUE]
       ELSE IF r.token.token_type = "EOF" THEN [tokens |-> Append(acc, r.token), panic |-> FALSE]
       ELSE TokenizeFrom(input, r.position, Append(acc, r.token))

\* Lexer::tokenize
tokenize(input) == TokenizeFrom(input, 0, <<>>)


(***************************************************************************)
(* parser/mod.rs.  ts is the token vector, current the 0-based index into  *)
(* it; every parsing method returns [ok, node, pos, err], pos being the    *)
(* value of current it leaves.  The tokens Struct, Type and Arrow are      *)
(* matched by the parser but produced by no arm of the lexer, so the       *)
(* branches behind them are left out.                                      *)
(***************************************************************************)
POk(node, pos) == [ok |-> TRUE, node |-> node, pos |-> pos, err |-> "none"]

PErr(err, pos) == [ok |-> FALSE, node |-> <<>>, pos |-> pos, err |-> err]

\* Parser::current_token().token_type
CurrentType(ts, current) == IF current < Len(ts) THEN ts[current + 1].token_type ELSE "EOF"

\* Parser::check
Check(ts, current, token_type) == CurrentType(ts, current) = token_type

\* Parser::advance: the new value of current
Advance(ts, current) == IF current < Len(ts) THEN current + 1 ELSE current

\* Parser::consume
Consume(ts, current, token_type) ==
    IF Check(ts, current, token_type) THEN POk(ts[current + 1], Advance(ts, current))
    ELSE PErr("UnexpectedToken", current)

\* str::parse::<i64> on a run of digits
RECURSIVE ParseI64(_)
ParseI64(chars) ==
    IF chars = <<>> THEN 0
    ELSE 10 * ParseI64(Front(chars)) + (CHOOSE d \in 0..9 : DigitChar(d) = Last(chars))

RECURSIVE Pow10(_)
Pow10(n) == IF n = 0 THEN 1 ELSE 10 * Pow10(n - 1)

\* str::parse::<f64> on digits '.' digits, as an exact fraction
ParseF64(chars) ==
    LET dot == CHOOSE i \in 1..Len(chars) : chars[i] = "."
        whole == SubSeq(chars, 1, dot - 1)
        frac == SubSeq(chars, dot + 1, Len(chars))
    IN FNorm(ParseI64(whole \o frac), Pow10(Len(frac)))

\* the operators of each precedence level: or, and, equality, comparison,
\* term, factor, as pairs <<token type, BinaryOp>>
LevelOps == <<
    << <<"Or", "Or">> >>,
    << <<"And", "And">> >>,
    << <<"EqualEqual", "Equal">>, <<"BangEqual", "NotEqual">> >>,
    << <<"Greater", "Greater">>, <<"GreaterEqual", "GreaterEqual">>, <<"Less", "Less">>, <<"LessEqual", "LessEqual">> >>,
    << <<"Plus", "Add">>, <<"Minus", "Subtract">> >>,
    << <<"Star", "Multiply">>, <<"Slash", "Divide">>, <<"Percent", "Modulo">> >> >>

\* the BinaryOp the level matches at the current token, as an Option
LevelMatch(ts, current, level) ==
    LET hits == {i \in 1..Len(LevelOps[level]) : LevelOps[level][i][1] = CurrentType(ts, current)}
    IN IF hits = {} THEN <<>> ELSE <<LevelOps[level][CHOOSE i \in hits : TRUE][2]>>

RECURSIVE parse_type(_, _)
RECURSIVE expression(_, _)
RECURSIVE assignment(_, _)
RECURSIVE BinaryLevel(_, _, _)
RECURSIVE Climb(_, _, _, _)
RECURSIVE BinaryRest(_, _, _, _)
RECURSIVE unary(_, _)
RECURSIVE call(_, _)
RECURSIVE CallRest(_, _, _)
RECURSIVE finish_call(_, _, _)
RECURSIVE ExpressionList(_, _, _)
RECURSIVE StructFields(_, _, _)
RECURSIVE primary(_, _)
RECURSIVE declaration(_, _)
RECURSIVE statement(_, _)
RECURSIVE BlockBody(_, _, _)

\* Parser::parse_type
parse_type(ts, current) ==
    LET element_type == parse_type(ts, current + 1)
        close == Consume(ts, element_type.pos, "RightBracket")
        t == CurrentType(ts, current)
    IN IF t = "LeftBracket"
       THEN (IF ~element_type.ok THEN element_type
             ELSE IF ~close.ok THEN close
             ELSE POk(TArray(element_type.node), close.pos))
       ELSE CASE t = "Int" -> POk(TInt, current + 1)
              [] t = "Float64" -> POk(TFloat, current + 1)
              [] t = "String64" -> POk(TString, current + 1)
              [] t = "Bool" -> POk(TBool, current + 1)
              [] t = "Void" -> POk(TVoid, current + 1)
              [] t = "Null" -> POk(TNull, current + 1)
              [] t = "Identifier" -> POk(TNamed(ts[current + 1].value), current + 1)
              [] OTHER -> PErr("UnexpectedToken", current)

\* Parser::expression
expression(ts, current) == assignment(ts, current)

\* Parser::assignment once the value assigned to expr has been parsed
assignment_value(expr, value) ==
    IF value.ok
    THEN CASE expr.node.k = "Identifier" -> POk(EAssign(expr.node.name, value.node), value.pos)
           [] expr.node.k = "Index" -> POk(EIndexAssign(expr.node.object, expr.node.index, value.node), value.pos)
           [] OTHER -> POk(EFieldAssign(expr.node.object, expr.node.field, value.node), value.pos)
    ELSE value

\* Parser::assignment once its left side has been parsed: an Equal token is
\* consumed whatever expr is, the value is parsed only for a target
assignment_expr(ts, expr) ==
    IF expr.ok
    THEN (IF ~Check(ts, expr.pos, "Equal") THEN expr
          ELSE IF expr.node.k \notin {"Identifier", "Index", "FieldAccess"} THEN POk(expr.node, expr.pos + 1)
          ELSE assignment_value(expr, assignment(ts, expr.pos + 1)))
    ELSE expr

\* Parser::assignment
assignment(ts, current) == assignment_expr(ts, BinaryLevel(ts, current, 1))

\* Parser::or, and, equality, comparison, term, factor (level 1 to 6):
\* each parses an operand of the next level and then loops on its own
\* operators, so the first operand of all of them is one unary() and the
\* loops of the levels below `level` have run on it, innermost first
BinaryLevel(ts, current, level) == Climb(ts, level, 6, unary(ts, current))

\* the loops of the levels k down to level on the operand parsed so far
Climb(ts, level, k, left) ==
    IF left.ok /\ k >= level
    THEN Climb(ts, level, k - 1, BinaryRest(ts, left.pos, k, left.node))
    ELSE left

\* the while loop of a precedence level once the right operand of op has
\* been parsed
BinaryRest_right(ts, level, expr, op, right) ==
    IF right.ok THEN BinaryRest(ts, right.pos, level, EBinary(expr, op[1], right.node)) ELSE right

\* the while loop of a precedence level; op is the operator matched at the
\* current token, as an Option
BinaryRest_op(ts, current, level, expr, op) ==
    IF op = <<>> THEN POk(expr, current)
    ELSE BinaryRest_right(ts, level, expr, op, IF level = 6 THEN unary(ts, current + 1) ELSE BinaryLevel(ts, current + 1, level + 1))

BinaryRest(ts, current, level, expr) == BinaryRest_op(ts, current, level, expr, LevelMatch(ts, current, level))

\* Parser::unary once the operand of op has been parsed
unary_operand(op, operand) ==
    IF operand.ok THEN POk(EUnary(op, operand.node), operand.pos) ELSE operand

\* Parser::unary
unary(ts, current) ==
    CASE CurrentType(ts, current) = "Bang" -> unary_operand("Not", unary(ts, current + 1))
      [] CurrentType(ts, current) = "Minus" -> unary_operand("Negate", unary(ts, current + 1))
      [] OTHER -> call(ts, current)

\* the loop of Parser::call goes on with the expression r
CallRest_expr(ts, r) == IF r.ok THEN CallRest(ts, r.pos, r.node) ELSE r

\* Parser::call
call(ts, current) == CallRest_expr(ts, primary(ts, current))

\* expr '[' index ']' once the closing bracket has been consumed
CallRest_close(ts, expr, index, close) ==
    IF close.ok THEN CallRest(ts, close.pos, EIndex(expr, index.node)) ELSE close

\* expr '[' index ']' once the index has been parsed
CallRest_index(ts, expr, index) ==
    IF index.ok THEN CallRest_close(ts, expr, index, Consume(ts, index.pos, "RightBracket")) ELSE index

\* expr '.' field once the field name has been consumed
CallRest_field(ts, expr, field) ==
    IF field.ok THEN CallRest(ts, field.pos, EFieldAccess(expr, field.node.value)) ELSE field

\* the loop of Parser::call
CallRest(ts, current, expr) ==
    CASE CurrentType(ts, current) = "LeftParen" -> CallRest_expr(ts, finish_call(ts, current + 1, expr))
      [] CurrentType(ts, current) = "LeftBracket" -> CallRest_index(ts, expr, expression(ts, current + 1))
      [] CurrentType(ts, current) = "Dot" -> CallRest_field(ts, expr, Consume(ts, current + 1, "Identifier"))
      [] OTHER -> POk(expr, current)

\* loop { push(expression()?); if !match(Comma) { break } } once the
\* expression e has been parsed
ExpressionList_e(ts, acc, e) ==
    IF e.ok
    THEN (IF Check(ts, e.pos, "Comma") THEN ExpressionList(ts, e.pos + 1, Append(acc, e.node))
          ELSE POk(Append(acc, e.node), e.pos))
    ELSE e

ExpressionList(ts, current, acc) == ExpressionList_e(ts, acc, expression(ts, current))

\* the token that closes a call, a grouping or a literal has been consumed
Closed(node, close) == IF close.ok THEN POk(node, close.pos) ELSE close

\* Parser::finish_call once the arguments have been parsed
finish_call_arguments(ts, callee, arguments) ==
    IF arguments.ok THEN Closed(ECall(callee, arguments.node), Consume(ts, arguments.pos, "RightParen")) ELSE arguments

\* Parser::finish_call
finish_call(ts, current, callee) ==
    finish_call_arguments(ts, callee, IF Check(ts, current, "RightParen") THEN POk(<<>>, current) ELSE ExpressionList(ts, current, <<>>))

\* the field loop of a struct literal
StructFields_fields(ts, current, acc, name, colon, value, fields) ==
    IF Check(ts, current, "RightBrace") \/ Check(ts, current, "EOF") THEN POk(acc, current)
    ELSE IF ~name.ok THEN name
    ELSE IF ~colon.ok THEN colon
    ELSE IF ~value.ok THEN value
    ELSE IF Check(ts, value.pos, "Comma") THEN StructFields(ts, value.pos + 1, fields)
    ELSE POk(fields, value.pos)

StructFields_value(ts, current, acc, name, colon, value) ==
    StructFields_fields(ts, current, acc, name, colon, value, Append(acc, [name |-> name.node.value, value |-> value.node]))

StructFields_colon(ts, current, acc, name, colon) ==
    StructFields_value(ts, current, acc, name, colon, expression(ts, colon.pos))

StructFields_name(ts, current, acc, name) ==
    StructFields_colon(ts, current, acc, name, Consume(ts, name.pos, "Colon"))

StructFields(ts, current, acc) ==
    StructFields_name(ts, current, acc, Consume(ts, current, "Identifier"))

\* name '{' fields '}' once the fields have been parsed
primary_fields(ts, name, fields) ==
    IF fields.ok THEN Closed(EStructLiteral(name, fields.node), Consume(ts, fields.pos, "RightBrace")) ELSE fields

\* '(' expression ')' once the expression has been parsed
primary_inner(ts, inner) ==
    IF inner.ok THEN Closed(inner.node, Consume(ts, inner.pos, "RightParen")) ELSE inner

\* '[' elements ']' once the elements have been parsed
primary_elements(ts, elements) ==
    IF elements.ok THEN Closed(EArray(elements.node), Consume(ts, elements.pos, "RightBracket")) ELSE elements

\* Parser::primary
primary(ts, current) ==
    CASE CurrentType(ts, current) = "True" -> POk(EBoolean(TRUE), current + 1)
      [] CurrentType(ts, current) = "False" -> POk(EBoolean(FALSE), current + 1)
      [] CurrentType(ts, current) = "Integer" -> POk(EInteger(ParseI64(ts[current + 1].value)), current + 1)
      [] CurrentType(ts, current) = "Float" -> POk(EFloat(ParseF64(ts[current + 1].value)), current + 1)
      [] CurrentType(ts, current) = "String" -> POk(EString(ts[current + 1].value), current + 1)
      [] CurrentType(ts, current) = "Identifier" ->
           IF Check(ts, current + 1, "LeftBrace") THEN primary_fields(ts, ts[current + 1].value, StructFields(ts, current + 2, <<>>))
           ELSE POk(EIdentifier(ts[current + 1].value), current + 1)
      [] CurrentType(ts, current) = "LeftParen" -> primary_inner(ts, expression(ts, current + 1))
      [] CurrentType(ts, current) = "LeftBracket" ->
           primary_elements(ts, IF Check(ts, current + 1, "RightBracket") THEN POk(<<>>, current + 1) ELSE ExpressionList(ts, current + 1, <<>>))
      [] OTHER -> PErr("InvalidExpression", current)


\* while !check(RightBrace) && !check(EOF) { push(declaration()?) }, then
\* consume(RightBrace)
BlockBody_close(ts, current, acc, d, close) ==
    IF Check(ts, current, "RightBrace") \/ Check(ts, current, "EOF")
    THEN (IF ~close.ok THEN close ELSE POk(acc, close.pos))
    ELSE IF ~d.ok THEN d
    ELSE BlockBody(ts, d.pos, Append(acc, d.node))

BlockBody_d(ts, current, acc, d) ==
    BlockBody_close(ts, current, acc, d, Consume(ts, current, "RightBrace"))

BlockBody(ts, current, acc) ==
    BlockBody_d(ts, current, acc, declaration(ts, current))

\* consume(LeftBrace), then the body up to its closing brace
BracedBody_open(ts, open) ==
    IF ~open.ok THEN open ELSE BlockBody(ts, open.pos, <<>>)

BracedBody(ts, current) ==
    BracedBody_open(ts, Consume(ts, current, "LeftBrace"))

\* Parser::var_declaration; current is just past the Let or Var token
var_declaration_semi(ts, current, is_mutable, name, hasType, ty, hasInit, init, semi) ==
    IF ~name.ok THEN name
    ELSE IF ~ty.ok THEN ty
    ELSE IF ~init.ok THEN init
    ELSE IF ~semi.ok THEN semi
    ELSE POk(SVarDeclaration(name.node.value, is_mutable, IF hasType THEN <<ty.node>> ELSE <<>>, IF hasInit THEN <<init.node>> ELSE <<>>, ts[current].token_type), semi.pos)

var_declaration_init(ts, current, is_mutable, name, hasType, ty, hasInit, init) ==
    var_declaration_semi(ts, current, is_mutable, name, hasType, ty, hasInit, init, Consume(ts, init.pos, "Semicolon"))

var_declaration_hasInit(ts, current, is_mutable, name, hasType, ty, hasInit) ==
    var_declaration_init(ts, current, is_mutable, name, hasType, ty, hasInit,
        IF hasInit THEN expression(ts, ty.pos + 1) ELSE POk(EBoolean(FALSE), ty.pos))

var_declaration_ty(ts, current, is_mutable, name, hasType, ty) ==
    var_declaration_hasInit(ts, current, is_mutable, name, hasType, ty, Check(ts, ty.pos, "Equal"))

var_declaration_hasType(ts, current, is_mutable, name, hasType) ==
    var_declaration_ty(ts, current, is_mutable, name, hasType, IF hasType THEN parse_type(ts, name.pos + 1) ELSE POk(TUnknown, name.pos))

var_declaration_name(ts, current, is_mutable, name) ==
    var_declaration_hasType(ts, current, is_mutable, name, Check(ts, name.pos, "Colon"))

var_declaration_is_mutable(ts, current, is_mutable) ==
    var_declaration_name(ts, current, is_mutable, Consume(ts, current, "Identifier"))

var_declaration(ts, current) ==
    var_declaration_is_mutable(ts, current, current >= 1 /\ ts[current].token_type = "Var")

\* the parameter loop of fn_declaration
RECURSIVE ParameterList(_, _, _)
ParameterList_params(ts, name, ty, params) ==
    IF ~name.ok THEN name
    ELSE IF ~ty.ok THEN ty
    ELSE IF Check(ts, ty.pos, "Comma") THEN ParameterList(ts, ty.pos + 1, params)
    ELSE POk(params, ty.pos)

ParameterList_ty(ts, acc, name, hasType, ty) ==
    ParameterList_params(ts, name, ty, Append(acc, Parameter(name.node.value, IF hasType THEN <<ty.node>> ELSE <<>>)))

ParameterList_hasType(ts, acc, name, hasType) ==
    ParameterList_ty(ts, acc, name, hasType, IF hasType THEN parse_type(ts, name.pos + 1) ELSE POk(TUnknown, name.pos))

ParameterList_name(ts, acc, name) ==
    ParameterList_hasType(ts, acc, name, Check(ts, name.pos, "Colon"))

ParameterList(ts, current, acc) ==
    ParameterList_name(ts, acc, Consume(ts, current, "Identifier"))

\* Parser::fn_declaration; no token is an Arrow, so return_type is None
fn_declaration_body(name, open, parameters, close, body) ==
    IF ~name.ok THEN name
    ELSE IF ~open.ok THEN open
    ELSE IF ~parameters.ok THEN parameters
    ELSE IF ~close.ok THEN close
    ELSE IF ~body.ok THEN body
    ELSE POk(SFnDeclaration(name.node.value, parameters.node, <<>>, body.node), body.pos)

fn_declaration_close(ts, name, open, parameters, close) ==
    fn_declaration_body(name, open, parameters, close, BracedBody(ts, close.pos))

fn_declaration_parameters(ts, name, open, parameters) ==
    fn_declaration_close(ts, name, open, parameters, Consume(ts, parameters.pos, "RightParen"))

fn_declaration_open(ts, name, open) ==
    fn_declaration_parameters(ts, name, open, IF Check(ts, open.pos, "RightParen") THEN POk(<<>>, open.pos) ELSE ParameterList(ts, open.pos, <<>>))

fn_declaration_name(ts, name) ==
    fn_declaration_open(ts, name, Consume(ts, name.pos, "LeftParen"))

fn_declaration(ts, current) ==
    fn_declaration_name(ts, Consume(ts, current, "Identifier"))

\* Parser::declaration
declaration(ts, current) ==
    CASE CurrentType(ts, current) \in {"Let", "Var"} -> var_declaration(ts, current + 1)
      [] CurrentType(ts, current) = "Fn" -> fn_declaration(ts, current + 1)
      [] OTHER -> statement(ts, current)

\* Parser::return_statement
return_statement_semi(hasValue, value, semi) ==
    IF ~value.ok THEN value
    ELSE IF ~semi.ok THEN semi
    ELSE POk(SReturn(IF hasValue THEN <<value.node>> ELSE <<>>), semi.pos)

return_statement_value(ts, hasValue, value) ==
    return_statement_semi(hasValue, value, Consume(ts, value.pos, "Semicolon"))

return_statement_hasValue(ts, current, hasValue) ==
    return_statement_value(ts, hasValue, IF hasValue THEN expression(ts, current) ELSE POk(EBoolean(FALSE), current))

return_statement(ts, current) ==
    return_statement_hasValue(ts, current, ~Check(ts, current, "Semicolon"))

\* Parser::if_statement
if_statement_else_branch(condition, then_branch, hasElse, else_branch) ==
    IF ~condition.ok THEN condition
    ELSE IF ~then_branch.ok THEN then_branch
    ELSE IF ~else_branch.ok THEN else_branch
    ELSE POk(SIf(condition.node, then_branch.node, IF hasElse THEN <<else_branch.node>> ELSE <<>>), else_branch.pos)

if_statement_hasElse(ts, condition, then_branch, hasElse) ==
    if_statement_else_branch(condition, then_branch, hasElse, IF hasElse THEN BracedBody(ts, then_branch.pos + 1) ELSE POk(<<>>, then_branch.pos))

if_statement_then_branch(ts, condition, then_branch) ==
    if_statement_hasElse(ts, condition, then_branch, Check(ts, then_branch.pos, "Else"))

if_statement_condition(ts, condition) ==
    if_statement_then_branch(ts, condition, BracedBody(ts, condition.pos))

if_statement(ts, current) ==
    if_statement_condition(ts, expression(ts, current))

\* Parser::while_statement
while_statement_body(condition, body) ==
    IF ~condition.ok THEN condition
    ELSE IF ~body.ok THEN body
    ELSE POk(SWhile(condition.node, body.node), body.pos)

while_statement_condition(ts, condition) ==
    while_statement_body(condition, BracedBody(ts, condition.pos))

while_statement(ts, current) ==
    while_statement_condition(ts, expression(ts, current))

\* Parser::for_statement
for_statement_body(variable, in, start, dots, end, body) ==
    IF ~variable.ok THEN variable
    ELSE IF ~in.ok THEN in
    ELSE IF ~start.ok THEN start
    ELSE IF ~dots.ok THEN dots
    ELSE IF ~end.ok THEN end
    ELSE IF ~body.ok THEN body
    ELSE POk(SFor(variable.node.value, start.node, end.node, body.node), body.pos)

for_statement_end(ts, variable, in, start, dots, end) ==
    for_statement_body(variable, in, start, dots, end, BracedBody(ts, end.pos))

for_statement_dots(ts, variable, in, start, dots) ==
    for_statement_end(ts, variable, in, start, dots, expression(ts, dots.pos))

for_statement_start(ts, variable, in, start) ==
    for_statement_dots(ts, variable, in, start, Consume(ts, start.pos, "DotDot"))

for_statement_in(ts, variable, in) ==
    for_statement_start(ts, variable, in, expression(ts, in.pos))

for_statement_variable(ts, variable) ==
    for_statement_in(ts, variable, Consume(ts, variable.pos, "In"))

for_statement(ts, current) ==
    for_statement_variable(ts, Consume(ts, current, "Identifier"))

\* Parser::print_statement
print_statement_semi(open, value, close, semi) ==
    IF ~open.ok THEN open
    ELSE IF ~value.ok THEN value
    ELSE IF ~close.ok THEN close
    ELSE IF ~semi.ok THEN semi
    ELSE POk(SPrint(value.node), semi.pos)

print_statement_close(ts, open, value, close) ==
    print_statement_semi(open, value, close, Consume(ts, close.pos, "Semicolon"))

print_statement_value(ts, open, value) ==
    print_statement_close(ts, open, value, Consume(ts, value.pos, "RightParen"))

print_statement_open(ts, open) ==
    print_statement_value(ts, open, expression(ts, open.pos))

print_statement(ts, current) ==
    print_statement_open(ts, Consume(ts, current, "LeftParen"))

\* Parser::block_statement
block_statement_body(body) ==
    IF ~body.ok THEN body ELSE POk(SBlock(body.node), body.pos)

block_statement(ts, current) ==
    block_statement_body(BlockBody(ts, current, <<>>))

\* Parser::expression_statement
expression_statement_semi(expr, semi) ==
    IF ~expr.ok THEN expr
    ELSE IF ~semi.ok THEN semi
    ELSE POk(SExpression(expr.node), semi.pos)

expression_statement_expr(ts, expr) ==
    expression_statement_semi(expr, Consume(ts, expr.pos, "Semicolon"))

expression_statement(ts, current) ==
    expression_statement_expr(ts, expression(ts, current))

\* Parser::statement
statement(ts, current) ==
    CASE CurrentType(ts, current) = "Return" -> return_statement(ts, current + 1)
      [] CurrentType(ts, current) = "If" -> if_statement(ts, current + 1)
      [] CurrentType(ts, current) = "While" -> while_statement(ts, current + 1)
      [] CurrentType(ts, current) = "For" -> for_statement(ts, current + 1)
      [] CurrentType(ts, current) = "Print" -> print_statement(ts, current + 1)
      [] CurrentType(ts, current) = "LeftBrace" -> block_statement(ts, current + 1)
      [] OTHER -> expression_statement(ts, current)

\* the loop of Parser::parse
RECURSIVE ParseFrom(_, _, _)
ParseFrom_stmt(ts, current, statements, stmt) ==
    IF Check(ts, current, "EOF") THEN POk(statements, current)
    ELSE IF ~stmt.ok THEN stmt
    ELSE ParseFrom(ts, stmt.pos, Append(statements, stmt.node))

ParseFrom(ts, current, statements) ==
    ParseFrom_stmt(ts, current, statements, declaration(ts, current))

\* Parser::parse
parse(ts) == ParseFrom(ts, 0, <<>>)


(***************************************************************************)
(* interpreter/mod.rs: the tree-walking interpreter of run_old.  A state   *)
(* is [scopes, output, status, err, ret, fuel]: status "ok", "err" (a      *)
(* RuntimeError named by err), "return" (Err(ReturnValue(ret)) on its way  *)
(* up) or "fuel" (cut off after InterpFuel loop iterations and calls).     *)
(* Its Value has no Array; a Function value holds [parameters, body].      *)
(***************************************************************************)
\* Interpreter::new, Environment::new
NewInterpreter == [scopes |-> <<<<>>>>, output |-> <<>>, status |-> "ok", err |-> "none", ret |-> VNull, fuel |-> InterpFuel]

\* interpreter::Value::to_string
IToString(val) ==
    CASE val.tag = "Integer" -> IntToChars(val.v)
      [] val.tag = "Float" -> FloatToChars(val.v)
      [] val.tag = "String" -> val.v
      [] val.tag = "Boolean" -> IF val.v THEN <<"t", "r", "u", "e">> ELSE <<"f", "a", "l", "s", "e">>
      [] val.tag = "Function" -> <<"<", "f", "u", "n", "c", "t", "i", "o", "n", ">">>
      [] OTHER -> <<"n", "u", "l", "l">>

\* interpreter::Value::is_truthy
IIsTruthy(val) ==
    CASE val.tag = "Boolean" -> val.v
      [] val.tag = "Null" -> FALSE
      [] val.tag = "Integer" -> val.v # 0
      [] val.tag = "Float" -> val.v[1] # 0
      [] OTHER -> TRUE

IFail(it, kind) == [it EXCEPT !.status = "err", !.err = kind]

IPushScope(it) == [it EXCEPT !.scopes = Append(@, <<>>)]

IPopScope(it) == [it EXCEPT !.scopes = Front(@)]

\* Environment::define
IDefine(it, name, val) ==
    LET top == Len(it.scopes)
    IN IF top = 0 THEN it
       ELSE [it EXCEPT !.scopes[top] = [n \in (DOMAIN @) \cup {name} |-> IF n = name THEN val ELSE @[n]]]

\* the innermost scope that holds the name, or 0
IScopeOf(it, name) ==
    LET hits == {i \in 1..Len(it.scopes) : name \in DOMAIN it.scopes[i]}
    IN IF hits = {} THEN 0 ELSE CHOOSE i \in hits : \A j \in hits : j <= i

\* every evaluation returns [it, val]
IVal(it, val) == [it |-> it, val |-> val]

\* Environment::get
IGet(it, name) ==
    IF IScopeOf(it, name) = 0 THEN IVal(IFail(it, "UndefinedVariable"), VNull)
    ELSE IVal(it, it.scopes[IScopeOf(it, name)][name])

\* Environment::set
ISet(it, name, val) ==
    IF IScopeOf(it, name) = 0 THEN IFail(it, "UndefinedVariable")
    ELSE [it EXCEPT !.scopes[IScopeOf(it, name)][name] = val]

\* Interpreter::values_equal
values_equal(left, right) == left.tag = right.tag /\ left.tag \in {"Integer", "Float", "String", "Boolean", "Null"} /\ left.v = right.v

\* the match on the operator of evaluate_binary
IBinaryResult_rZero(operator, l, r, bothInt, bothFloat, numeric, rZero) ==
    CASE operator = "Add" ->
           IF bothInt THEN ROk(VInt(l.v + r.v))
           ELSE IF numeric THEN ROk(FAdd(AsF64(l), AsF64(r)))
           ELSE IF l.tag = "String" /\ r.tag = "String" THEN ROk(VString(l.v \o r.v))
           ELSE RErr("TypeMismatch")
      [] operator = "Subtract" ->
           IF bothInt THEN ROk(VInt(l.v - r.v))
           ELSE IF numeric THEN ROk(FSub(AsF64(l), AsF64(r)))
           ELSE RErr("TypeMismatch")
      [] operator = "Multiply" ->
           IF bothInt THEN ROk(VInt(l.v * r.v))
           ELSE IF numeric THEN ROk(FMul(AsF64(l), AsF64(r)))
           ELSE RErr("TypeMismatch")
      [] operator = "Divide" ->
           IF ~numeric THEN RErr("TypeMismatch")
           ELSE IF rZero THEN RErr("DivisionByZero")
           ELSE IF bothInt THEN ROk(VInt(TruncDiv(l.v, r.v)))
           ELSE ROk(FDiv(AsF64(l), AsF64(r)))
      [] operator = "Modulo" ->
           IF ~bothInt THEN RErr("TypeMismatch")
           ELSE IF r.v = 0 THEN RErr("DivisionByZero")
           ELSE ROk(VInt(TruncRem(l.v, r.v)))
      [] operator = "Equal" -> ROk(VBool(values_equal(l, r)))
      [] operator = "NotEqual" -> ROk(VBool(~values_equal(l, r)))
      [] operator \in {"Less", "LessEqual", "Greater", "GreaterEqual"} ->
           IF bothInt \/ bothFloat THEN ROk(VBool(CompareOp(operator, AsF64(l), AsF64(r))))
           ELSE RErr("TypeMismatch")
      [] operator = "And" -> ROk(VBool(IIsTruthy(l) /\ IIsTruthy(r)))
      [] OTHER -> ROk(VBool(IIsTruthy(l) \/ IIsTruthy(r)))

IBinaryResult_numeric(operator, l, r, bothInt, bothFloat, numeric) ==
    IBinaryResult_rZero(operator, l, r, bothInt, bothFloat, numeric, AsF64(r)[1] = 0)

IBinaryResult_bothFloat(operator, l, r, bothInt, bothFloat) ==
    IBinaryResult_numeric(operator, l, r, bothInt, bothFloat, IsNum(l) /\ IsNum(r))

IBinaryResult_bothInt(operator, l, r, bothInt) ==
    IBinaryResult_bothFloat(operator, l, r, bothInt, l.tag = "Float" /\ r.tag = "Float")

IBinaryResult(operator, l, r) ==
    IBinaryResult_bothInt(operator, l, r, l.tag = "Integer" /\ r.tag = "Integer")

RECURSIVE execute_statement(_, _)
RECURSIVE ExecuteStatements(_, _)
RECURSIVE evaluate_expression(_, _)
RECURSIVE WhileLoop(_, _)
RECURSIVE ForRange(_, _, _, _)
RECURSIVE BindArguments(_, _, _, _)

\* for stmt in stmts { execute_statement(stmt)? }
ExecuteStatements(it, stmts) ==
    IF it.status # "ok" \/ stmts = <<>> THEN it
    ELSE ExecuteStatements(execute_statement(it, Head(stmts)), Tail(stmts))

\* Interpreter::evaluate_binary
evaluate_binary_res(l, r, res) ==
    IF l.it.status # "ok" THEN l
    ELSE IF r.it.status # "ok" THEN r
    ELSE IF ~res.ok THEN IVal(IFail(r.it, res.err), VNull)
    ELSE IVal(r.it, res.val)

evaluate_binary_r(expr, l, r) ==
    evaluate_binary_res(l, r, IBinaryResult(expr.operator, l.val, r.val))

evaluate_binary_l(expr, l) ==
    evaluate_binary_r(expr, l, evaluate_expression(l.it, expr.right))

evaluate_binary(it, expr) ==
    evaluate_binary_l(expr, evaluate_expression(it, expr.left))

\* Interpreter::evaluate_unary
evaluate_unary_o(expr, o) ==
    IF o.it.status # "ok" THEN o
    ELSE IF expr.operator = "Not" THEN IVal(o.it, VBool(~IIsTruthy(o.val)))
    ELSE IF o.val.tag = "Integer" THEN IVal(o.it, VInt(-o.val.v))
    ELSE IF o.val.tag = "Float" THEN IVal(o.it, VFloat(-o.val.v[1], o.val.v[2]))
    ELSE IVal(IFail(o.it, "TypeMismatch"), VNull)

evaluate_unary(it, expr) ==
    evaluate_unary_o(expr, evaluate_expression(it, expr.operand))

\* for (param, arg) in parameters.zip(arguments): evaluate, then define
BindArguments_a(it, parameters, arguments, i, a) ==
    IF it.status # "ok" \/ i > Len(arguments) THEN it
    ELSE IF a.it.status # "ok" THEN a.it
    ELSE BindArguments(IDefine(a.it, parameters[i].name, a.val), parameters, arguments, i + 1)

BindArguments(it, parameters, arguments, i) ==
    BindArguments_a(it, parameters, arguments, i, evaluate_expression(it, arguments[i]))

\* Interpreter::evaluate_call, execute_function_body
evaluate_call_ran(expr, func, bound, ran) ==
    IF func.it.status # "ok" THEN func
    ELSE IF func.val.tag # "Function" THEN IVal(IFail(func.it, "TypeMismatch"), VNull)
    ELSE IF Len(func.val.v.parameters) # Len(expr.arguments) THEN IVal(IFail(func.it, "TypeMismatch"), VNull)
    ELSE IF func.it.fuel = 0 THEN IVal([func.it EXCEPT !.status = "fuel"], VNull)
    ELSE IF bound.status # "ok" THEN IVal(bound, VNull)
    ELSE IF ran.status = "ok" THEN IVal(IPopScope(ran), VNull)
    ELSE IF ran.status = "return" THEN IVal(IPopScope([ran EXCEPT !.status = "ok", !.ret = VNull]), ran.ret)
    ELSE IVal(ran, VNull)

evaluate_call_bound(expr, func, bound) ==
    evaluate_call_ran(expr, func, bound, ExecuteStatements(bound, func.val.v.body))

evaluate_call_func(expr, func) ==
    evaluate_call_bound(expr, func, BindArguments(IPushScope([func.it EXCEPT !.fuel = @ - 1]), func.val.v.parameters, expr.arguments, 1))

evaluate_call(it, expr) ==
    evaluate_call_func(expr, evaluate_expression(it, expr.callee))

\* Interpreter::evaluate_expression
evaluate_expression_v(expr, v) ==
    IF v.it.status # "ok" THEN v ELSE IVal(ISet(v.it, expr.name, v.val), v.val)

evaluate_expression(it, expr) ==
    CASE expr.k = "Integer" -> IVal(it, VInt(expr.v))
      [] expr.k = "Float" -> IVal(it, VFloat(expr.v[1], expr.v[2]))
      [] expr.k = "String" -> IVal(it, VString(expr.v))
      [] expr.k = "Boolean" -> IVal(it, VBool(expr.v))
      [] expr.k = "Identifier" -> IGet(it, expr.name)
      [] expr.k = "Binary" -> evaluate_binary(it, expr)
      [] expr.k = "Unary" -> evaluate_unary(it, expr)
      [] expr.k = "Call" -> evaluate_call(it, expr)
      [] expr.k = "Assign" ->
           evaluate_expression_v(expr, evaluate_expression(it, expr.value))
      [] expr.k = "Array" -> IVal(it, VString(<<"A", "r", "r", "a", "y", "[">> \o NatToChars(Len(expr.elements)) \o <<"]">>))
      [] expr.k = "Index" -> IVal(IFail(it, "InvalidOperation"), VNull)
      [] expr.k = "IndexAssign" -> evaluate_expression(it, expr.value)
      [] OTHER -> IVal(IFail(it, "no arm for this expression"), VNull)

\* while evaluate_expression(condition)?.is_truthy() { body }
WhileLoop_body(stmt, c, body) ==
    IF c.it.status # "ok" THEN c.it
    ELSE IF ~IIsTruthy(c.val) THEN c.it
    ELSE IF c.it.fuel = 0 THEN [c.it EXCEPT !.status = "fuel"]
    ELSE IF body.status # "ok" THEN body
    ELSE WhileLoop(body, stmt)

WhileLoop_c(stmt, c) ==
    WhileLoop_body(stmt, c, ExecuteStatements([c.it EXCEPT !.fuel = @ - 1], stmt.body))

WhileLoop(it, stmt) ==
    WhileLoop_c(stmt, evaluate_expression(it, stmt.condition))

\* for i in start_i..end_i { define(variable, i); body }
ForRange_body(it, stmt, i, end_i, body) ==
    IF i >= end_i THEN it
    ELSE IF it.fuel = 0 THEN [it EXCEPT !.status = "fuel"]
    ELSE IF body.status # "ok" THEN body
    ELSE ForRange(body, stmt, i + 1, end_i)

ForRange(it, stmt, i, end_i) ==
    ForRange_body(it, stmt, i, end_i, ExecuteStatements(IDefine([it EXCEPT !.fuel = @ - 1], stmt.variable, VInt(i)), stmt.body))

\* Stmt::For
ExecuteFor_ran(s, e, ran) ==
    IF s.it.status # "ok" THEN s.it
    ELSE IF e.it.status # "ok" THEN e.it
    ELSE IF s.val.tag # "Integer" \/ e.val.tag # "Integer" THEN IFail(e.it, "TypeMismatch")
    ELSE IF ran.status # "ok" THEN ran
    ELSE IPopScope(ran)

ExecuteFor_e(stmt, s, e) ==
    ExecuteFor_ran(s, e, ForRange(IPushScope(e.it), stmt, s.val.v, e.val.v))

ExecuteFor_s(stmt, s) ==
    ExecuteFor_e(stmt, s, evaluate_expression(s.it, stmt.end))

ExecuteFor(it, stmt) ==
    ExecuteFor_s(stmt, evaluate_expression(it, stmt.start))

\* Interpreter::execute_statement
execute_statement_v(stmt, v) ==
    IF v.it.status # "ok" THEN v.it ELSE IDefine(v.it, stmt.name, v.val)

execute_statement_v2(v) ==
    IF v.it.status # "ok" THEN v.it ELSE [v.it EXCEPT !.status = "return", !.ret = v.val]

execute_statement_c(stmt, c) ==
    IF c.it.status # "ok" THEN c.it
    ELSE IF IIsTruthy(c.val) THEN ExecuteStatements(c.it, stmt.then_branch)
    ELSE IF stmt.else_branch # <<>> THEN ExecuteStatements(c.it, stmt.else_branch[1])
    ELSE c.it

execute_statement_v3(v) ==
    IF v.it.status # "ok" THEN v.it ELSE [v.it EXCEPT !.output = Append(@, IToString(v.val))]

execute_statement_ran(ran) ==
    IF ran.status # "ok" THEN ran ELSE IPopScope(ran)

execute_statement(it, stmt) ==
    CASE stmt.k = "Expression" -> evaluate_expression(it, stmt.expr).it
      [] stmt.k = "VarDeclaration" ->
           execute_statement_v(stmt, IF stmt.initializer # <<>> THEN evaluate_expression(it, stmt.initializer[1]) ELSE IVal(it, VNull))
      [] stmt.k = "FnDeclaration" -> IDefine(it, stmt.name, VFunction([parameters |-> stmt.parameters, body |-> stmt.body]))
      [] stmt.k = "Return" ->
           execute_statement_v2(IF stmt.value # <<>> THEN evaluate_expression(it, stmt.value[1]) ELSE IVal(it, VNull))
      [] stmt.k = "If" ->
           execute_statement_c(stmt, evaluate_expression(it, stmt.condition))
      [] stmt.k = "While" -> WhileLoop(it, stmt)
      [] stmt.k = "For" -> ExecuteFor(it, stmt)
      [] stmt.k = "Print" ->
           execute_statement_v3(evaluate_expression(it, stmt.value))
      [] OTHER ->
           execute_statement_ran(ExecuteStatements(IPushScope(it), stmt.statements))

\* Interpreter::interpret: Err(ReturnValue) at top level is a runtime error
interpret_ran(ran) ==
    IF ran.status = "return" THEN [ran EXCEPT !.status = "err", !.err = "ReturnValue"] ELSE ran

interpret(program) ==
    interpret_ran(ExecuteStatements(NewInterpreter, program))

(***************************************************************************)
(* The source texts the pipeline is run on.  A text is written as a list   *)
(* of words; Src spells each word out in characters and joins them with a  *)
(* single space.                                                           *)
(***************************************************************************)
Spell(w) ==
    CASE w = "let" -> <<"l", "e", "t">>
      [] w = "var" -> <<"v", "a", "r">>
      [] w = "fn" -> <<"f", "n">>
      [] w = "return" -> <<"r", "e", "t", "u", "r", "n">>
      [] w = "if" -> <<"i", "f">>
      [] w = "else" -> <<"e", "l", "s", "e">>
      [] w = "while" -> <<"w", "h", "i", "l", "e">>
      [] w = "for" -> <<"f", "o", "r">>
      [] w = "in" -> <<"i", "n">>
      [] w = "true" -> <<"t", "r", "u", "e">>
      [] w = "false" -> <<"f", "a", "l", "s", "e">>
      [] w = "print" -> <<"p", "r", "i", "n", "t">>
      [] w = "int" -> <<"i", "n", "t">>
      [] w = "float" -> <<"f", "l", "o", "a", "t">>
      [] w = "string" -> <<"s", "t", "r", "i", "n", "g">>
      [] w = "bool" -> <<"b", "o", "o", "l">>
      [] w = "==" -> <<"=", "=">>
      [] w = "!=" -> <<"!", "=">>
      [] w = "<=" -> <<"<", "=">>
      [] w = ">=" -> <<">", "=">>
      [] w = "&&" -> <<"&", "&">>
      [] w = "||" -> <<"|", "|">>
      [] w = ".." -> <<".", ".">>
      [] w = "->" -> <<"-", ">">>
      [] w \in {"+=", "-=", "*=", "/=", "%="} -> <<CHOOSE ch \in {"+", "-", "*", "/", "%"} : w = ch \o "=", "=">>
      [] w = "//" -> <<"/", "/">>
      [] w = "99" -> <<"9", "9">>
      [] w = "3.14" -> <<"3", ".", "1", "4">>
      [] w = "1.5" -> <<"1", ".", "5">>
      [] w = "'hi'" -> <<"\"", "h", "i", "\"">>
      [] w = "'a'" -> <<"\"", "a", "\"">>
      [] OTHER -> <<w>>

RECURSIVE Src(_)
Src(words) ==
    IF words = <<>> THEN <<>>
    ELSE IF Len(words) = 1 THEN Spell(words[1])
    ELSE Src(SubSeq(words, 1, Len(words) \div 2)) \o <<" ">> \o Src(SubSeq(words, Len(words) \div 2 + 1, Len(words)))

\* `kw i = 0; while i < n { print(i); i = i + 1; }`
Counting(kw, n) == <<kw, "i", "=", "0", ";", "while", "i", "<", DigitChar(n), "{", "print", "(", "i", ")", ";", "i", "=", "i", "+", "1", ";", "}">>

\* `for i in 0..n { print(i); }`
ForCount(n) == <<"for", "i", "in", "0", "..", DigitChar(n), "{", "print", "(", "i", ")", ";", "}">>

\* `kw a = [1, 2, 3]; a[i] = 99; print(a[1]); print(a[-1]);`
ArrayProg(kw, i) == <<kw, "a", "=", "[", "1", ",", "2", ",", "3", "]", ";", "a", "[">> \o i \o <<"]", "=", "99", ";", "print", "(", "a", "[", "1", "]", ")", ";", "print", "(", "a", "[", "-", "1", "]", ")", ";">>

\* `{ var a = [1, 2]; a[0] = 5; print(a); }`
LocalArrayProg == <<"{", "var", "a", "=", "[", "1", ",", "2", "]", ";", "a", "[", "0", "]", "=", "5", ";", "print", "(", "a", ")", ";", "}">>

\* `{ var a = [1, 2]; a[0] = 5; var b = 7; print(b); }`
LocalAfterIndexAssignProg == <<"{", "var", "a", "=", "[", "1", ",", "2", "]", ";", "a", "[", "0", "]", "=", "5", ";", "var", "b", "=", "7", ";", "print", "(", "b", ")", ";", "}">>

\* `fn f(x) { let a = [1, 2]; if (x) { print(a[x] % x); } for i in x..(x) { print(i); } return x; } print(f(1));`
\* (an identifier followed by `{` would be read as a struct literal)
UnknownOperandsProg ==
    <<"fn", "f", "(", "x", ")", "{", "let", "a", "=", "[", "1", ",", "2", "]", ";",
      "if", "(", "x", ")", "{", "print", "(", "a", "[", "x", "]", "%", "x", ")", ";", "}",
      "for", "i", "in", "x", "..", "(", "x", ")", "{", "print", "(", "i", ")", ";", "}",
      "return", "x", ";", "}", "print", "(", "f", "(", "1", ")", ")", ";">>

\* `fn f(x) { return <op>x; } print(f(1));` with op one of `-` and `!`
UnaryUnknownProg(op) == <<"fn", "f", "(", "x", ")", "{", "return", op, "x", ";", "}", "print", "(", "f", "(", "1", ")", ")", ";">>

\* `fn f(g) { return g(1); } print(1);`
CallUnknownProg == <<"fn", "f", "(", "g", ")", "{", "return", "g", "(", "1", ")", ";", "}", "print", "(", "1", ")", ";">>

\* `var a = 1; a += 2; a -= 1; a *= 2; a /= 2; a %= 2; print(a);`
CompoundAssignProg ==
    <<"var", "a", "=", "1", ";", "a", "+=", "2", ";", "a", "-=", "1", ";", "a", "*=", "2", ";",
      "a", "/=", "2", ";", "a", "%=", "2", ";", "print", "(", "a", ")", ";">>

\* `var a = 1; var b = 2; a = b = 3; print(a); print(b);`
ChainedAssignProg ==
    <<"var", "a", "=", "1", ";", "var", "b", "=", "2", ";", "a", "=", "b", "=", "3", ";",
      "print", "(", "a", ")", ";", "print", "(", "b", ")", ";">>

\* `<lhs> = <rhs>; print(2);` with a left side that is no target
NoTargetProg(lhs, rhs) == lhs \o <<"=">> \o rhs \o <<";", "print", "(", "2", ")", ";">>

NoTargetPrograms ==
    {NoTargetProg(lhs, rhs) : lhs \in {<<"1">>, <<"1", "+", "2">>, <<"f", "(", ")">>, <<"-", "1">>}, rhs \in {<<>>, <<"2">>}}
    \cup {<<"print", "(", "1", "=", ")", ";">>, <<"let", "y", "=", "1", "=", ";", "print", "(", "y", ")", ";">>}

\* `let a: a; let b: a;`: the binding of a has the type Named(a)
SelfNamedProg == <<"let", "a", ":", "a", ";", "let", "b", ":", "a", ";">>

\* `let a: b; let b: a; var c = 1; c = a;`: the binding of b has the type Named(b)
CycleNamedProg == <<"let", "a", ":", "b", ";", "let", "b", ":", "a", ";", "var", "c", "=", "1", ";", "c", "=", "a", ";">>

\* `let a: b; let b: int; let c: a = 1; print(c);`: a names b, b is an int
ChainNamedProg == <<"let", "a", ":", "b", ";", "let", "b", ":", "int", ";", "let", "c", ":", "a", "=", "1", ";", "print", "(", "c", ")", ";">>

\* `let c: [t]; print(c);`: no binding has the name t
UnknownNamedProg == <<"let", "c", ":", "[", "t", "]", ";", "print", "(", "c", ")", ";">>

\* `fn m(a, b) { return a * b; } fn f(n) { if n <= 1 { return 1; } return n * f(n - 1); } print(m(6, 7)); print(f(n));`
\* the words of an integer literal, `- n` for a negative one
IntWords(n) == IF n < 0 THEN <<"-", DigitChar(-n)>> ELSE <<DigitChar(n)>>

\* `for i in a..b { print(i); }` after the statements of pre
ForRangeProg(pre, a, b) == pre \o <<"for", "i", "in">> \o a \o <<"..">> \o b \o <<"{", "print", "(", "i", ")", ";", "}">>

\* the bounds of the range loops
RangeLows == {-1, 0, 2}

RangeHighs == {0, 1, 3}

\* statements that print nothing, before a loop: none; `var a = [1, 2];
\* a[0] = 5;`; `for j in 0..2 { let y = j; }`
RangePrefixes ==
    {<<>>,
     <<"var", "a", "=", "[", "1", ",", "2", "]", ";", "a", "[", "0", "]", "=", "5", ";">>,
     <<"for", "j", "in", "0", "..", "2", "{", "let", "y", "=", "j", ";", "}">>}

\* `fn l() { print(7); return 1; } fn h() { print(8); return 3; }`
BoundFunctions ==
    <<"fn", "l", "(", ")", "{", "print", "(", "7", ")", ";", "return", "1", ";", "}",
      "fn", "h", "(", ")", "{", "print", "(", "8", ")", ";", "return", "3", ";", "}">>

\* a loop whose bounds are calls that print
CallBoundsProg == ForRangeProg(BoundFunctions, <<"l", "(", ")">>, <<"h", "(", ")">>)

RangePrograms ==
    {ForRangeProg(pre, IntWords(a), IntWords(b)) : pre \in RangePrefixes, a \in RangeLows, b \in RangeHighs} \cup {CallBoundsProg}

\* `for i in 0..3 { let y = i; print(y); }`
ForBodyLocalProg == <<"for", "i", "in", "0", "..", "3", "{", "let", "y", "=", "i", ";", "print", "(", "y", ")", ";", "}">>

\* `var i = 0; while i < 3 { let y = i; print(y); i = i + 1; }`
WhileBodyLocalProg ==
    <<"var", "i", "=", "0", ";", "while", "i", "<", "3", "{", "let", "y", "=", "i", ";", "print", "(", "y", ")", ";", "i", "=", "i", "+", "1", ";", "}">>

\* `fn f() { for i in 0..0 { let y = 1; } } print(1 + f());`
ZeroTripProg ==
    <<"fn", "f", "(", ")", "{", "for", "i", "in", "0", "..", "0", "{", "let", "y", "=", "1", ";", "}", "}", "print", "(", "1", "+", "f", "(", ")", ")", ";">>

\* `return 1; print(2);`
TopReturnProg == <<"return", "1", ";", "print", "(", "2", ")", ";">>

\* `fn f() { let y = 5; fn g() { return y; } return g(); } print(f());`
EnclosingLocalProg ==
    <<"fn", "f", "(", ")", "{", "let", "y", "=", "5", ";", "fn", "g", "(", ")", "{", "return", "y", ";", "}", "return", "g", "(", ")", ";", "}",
      "print", "(", "f", "(", ")", ")", ";">>

\* `{ let y = 1; fn g() { return y; } print(g()); }`
BlockLocalProg ==
    <<"{", "let", "y", "=", "1", ";", "fn", "g", "(", ")", "{", "return", "y", ";", "}", "print", "(", "g", "(", ")", ")", ";", "}">>

\* `fn f() { fn g() { return 1; } fn h() { return g(); } return h(); } print(f());`
EnclosingFunctionProg ==
    <<"fn", "f", "(", ")", "{", "fn", "g", "(", ")", "{", "return", "1", ";", "}", "fn", "h", "(", ")", "{", "return", "g", "(", ")", ";", "}",
      "return", "h", "(", ")", ";", "}", "print", "(", "f", "(", ")", ")", ";">>

NestedReferencePrograms == {EnclosingLocalProg, BlockLocalProg, EnclosingFunctionProg}

\* a name declared at top level and again in two nested blocks
ShadowProg ==
    <<"var", "x", "=", "0", ";",
      "{", "var", "x", "=", "1", ";",
           "{", "var", "x", "=", "2", ";", "var", "y", "=", "3", ";", "print", "(", "x", ")", ";", "}",
           "x", "=", "4", ";", "print", "(", "x", ")", ";", "}",
      "print", "(", "x", ")", ";">>

FunctionsProg(n) ==
    <<"fn", "m", "(", "a", ",", "b", ")", "{", "return", "a", "*", "b", ";", "}",
      "fn", "f", "(", "n", ")", "{", "if", "n", "<=", "1", "{", "return", "1", ";", "}", "return", "n", "*", "f", "(", "n", "-", "1", ")", ";", "}",
      "print", "(", "m", "(", "6", ",", "7", ")", ")", ";", "print", "(", "f", "(", DigitChar(n), ")", ")", ";">>

\* `fn g(x) { let y = x + 1; return y; } fn h(x) { return g(x) + g(x + 1); } print(h(1)); g(2);`
NestedCallsProg ==
    <<"fn", "g", "(", "x", ")", "{", "let", "y", "=", "x", "+", "1", ";", "return", "y", ";", "}",
      "fn", "h", "(", "x", ")", "{", "return", "g", "(", "x", ")", "+", "g", "(", "x", "+", "1", ")", ";", "}",
      "print", "(", "h", "(", "1", ")", ")", ";", "g", "(", "2", ")", ";">>

\* `fn p(x) { print(x); return x; } print(p(a) op p(b));`
ShortCircuitProg(a, op, b) ==
    <<"fn", "p", "(", "x", ")", "{", "print", "(", "x", ")", ";", "return", "x", ";", "}",
      "print", "(", "p", "(", a, ")", op, "p", "(", b, ")", ")", ";">>

\* `fn p(x) { print(x); return x; } print((p(a) && p(b)) || p(1));`
NestedShortCircuitProg(a, b) ==
    <<"fn", "p", "(", "x", ")", "{", "print", "(", "x", ")", ";", "return", "x", ";", "}",
      "print", "(", "(", "p", "(", a, ")", "&&", "p", "(", b, ")", ")", "||", "p", "(", "1", ")", ")", ";">>

\* `fn c(n) { var i = n; while i < 2 { i = i + 1; } return i; } if c(0) > 1 { print(1); }`
LoopInFunctionProg ==
    <<"fn", "c", "(", "n", ")", "{", "var", "i", "=", "n", ";", "while", "i", "<", "2", "{", "i", "=", "i", "+", "1", ";", "}", "return", "i", ";", "}",
      "if", "c", "(", "0", ")", ">", "1", "{", "print", "(", "1", ")", ";", "}">>

\* `kw v = 1; v = value;`
AssignProg(kw, value) == <<kw, "v", "=", "1", ";", "v", "=", value, ";", "print", "(", "v", ")", ";">>

OtherPrograms == {
    <<"print", "(", "[", "1", ",", "2", "]", ")", ";">>,
    <<"let", "x", ":", "float", "=", "1", ";", "print", "(", "x", ")", ";">>,
    <<"let", "y", ":", "int", ";", "print", "(", "y", ")", ";">>,
    <<"let", "x", ":", "int", "=", "'hi'", ";">>,
    <<"let", "x", ":", "int", "=", "1", ";", "let", "y", ":", "float", "=", "3.14", ";", "let", "s", ":", "string", "=", "'hi'", ";", "let", "b", ":", "bool", "=", "true", ";",
      "print", "(", "x", ")", ";", "print", "(", "y", ")", ";", "print", "(", "s", ")", ";", "print", "(", "b", ")", ";">>,
    <<"print", "(", "7", "/", "2", ")", ";", "print", "(", "7", "%", "3", ")", ";", "print", "(", "1.5", "+", "2", ")", ";", "print", "(", "'a'", "+", "'hi'", ")", ";",
      "print", "(", "-", "3", ")", ";", "print", "(", "!", "true", ")", ";", "print", "(", "1", "==", "1", ")", ";", "print", "(", "2", ">=", "3", ")", ";">>,
    <<"//", "x", "\n", "print", "(", "true", "&&", "false", ")", ";", "print", "(", "false", "||", "true", ")", ";">>,
    <<"let", "x", "=", ";">>,
    <<"var", "n", "=", "2", ";", "while", "n", "<", "n", "{", "}">>,
    <<"print", "(", "1", "@", "2", ")", ";">>,
    <<"fn", "f", "(", ")", "->", "int", "{", "return", "1", ";", "}">>,
    <<"z", "=", "1", ";">>,
    <<"fn", "f", "(", "q", ")", "{", "q", "=", "1", ";", "}">>,
    <<"fn", "f", "(", ")", "{", "}", "f", "=", "1", ";">>,
    <<"for", "i", "in", "0", "..", "2", "{", "i", "=", "i", "+", "1", ";", "print", "(", "i", ")", ";", "}">>,
    <<"let", "y", "=", "1", ";", "fn", "g", "(", ")", "{", "return", "y", ";", "}", "fn", "f", "(", ")", "{", "let", "y", "=", "5", ";", "return", "g", "(", ")", ";", "}", "print", "(", "f", "(", ")", ")", ";">>,
    <<"let", "x", "=", "5", ";", "if", "x", ">", "3", "{", "print", "(", "x", ")", ";", "}", "else", "{", "print", "(", "0", ")", ";", "}", "print", "(", "1", "/", "0", ")", ";">>,
    <<"var", "v", "=", "1", ";", "v", "=", "2", ";", "let", "c", "=", "1", ";", "c", "=", "v", ";">>,
    LocalArrayProg, NestedCallsProg, LoopInFunctionProg, LocalAfterIndexAssignProg,
    SelfNamedProg, CycleNamedProg, ChainNamedProg, UnknownNamedProg,
    UnknownOperandsProg, UnaryUnknownProg("-"), UnaryUnknownProg("!"), CallUnknownProg, CompoundAssignProg,
    ChainedAssignProg, ShadowProg, ForBodyLocalProg, WhileBodyLocalProg, ZeroTripProg, TopReturnProg } \cup NoTargetPrograms \cup RangePrograms \cup NestedReferencePrograms

WordPrograms ==
    {Counting(kw, n) : kw \in {"let", "var"}, n \in 0..MaxCount}
    \cup {ForCount(n) : n \in 0..MaxCount}
    \cup {FunctionsProg(n) : n \in {0, 1, 2}}
    \cup {ArrayProg(kw, i) : kw \in {"let", "var"}, i \in {<<"0">>, <<"1">>, <<"-", "1">>, <<"-", "3">>, <<"3">>}}
    \cup {ShortCircuitProg(a, op, b) : a \in {"true", "false", "0"}, op \in {"&&", "||"}, b \in {"true", "false", "0"}}
    \cup {NestedShortCircuitProg(a, b) : a \in {"true", "false"}, b \in {"true", "false"}}
    \cup {AssignProg(kw, value) : kw \in {"let", "var"}, value \in {"2", "'hi'", "1.5"}}
    \cup OtherPrograms

Programs == {Src(w) : w \in WordPrograms}


(***************************************************************************)
(* Observation of a run of the VM.  The compiler notes in each chunk where *)
(* the code of a statement starts and ends (spans), where a short-circuit  *)
(* operator tests its left operand (sc), where an index assignment to a    *)
(* variable executes ArraySet (ia) and where the value of a declaration's  *)
(* initializer or of a print's operand is on top of the stack (typed).     *)
(* The variable `ghost` records what the VM does at those places; it is    *)
(* read by no instruction.  ghost.fr holds one record per call frame.      *)
(***************************************************************************)
NewFrameGhost(pre, args, retip) == [open |-> {}, sc |-> {}, pre |-> pre, args |-> args, retip |-> retip, env |-> {}, lh |-> {}]

\* env with the binding of b's local replaced by b
Bind(env, b) == {e \in env : e.name # b.name \/ e.depth # b.depth} \cup {b}

\* the bindings env holds for the local of note n
Bound(env, n) == {e \in env : e.name = n.name /\ e.depth = n.depth}

\* the parameters of a function as bindings to the arguments of a call
ParamEnv(c, args) ==
    {[name |-> n.name, depth |-> n.depth, index |-> n.index, val |-> args[n.index + 1]] :
        n \in {n \in {c.decl[i] : i \in 1..Len(c.decl)} : n.at = 0 /\ n.index < Len(args)}}

\* env once every declaration whose value is on top of the stack at ip is bound
RECURSIVE Declare(_, _, _, _)
Declare(env, decl, ip, top) ==
    IF decl = <<>> THEN env
    ELSE Declare(IF Head(decl).at = ip /\ ip > 0
                 THEN Bind(env, [name |-> Head(decl).name, depth |-> Head(decl).depth, index |-> Head(decl).index, val |-> top])
                 ELSE env, Tail(decl), ip, top)

NewGhost == [ran |-> {}, fr |-> <<>>, spans |-> {}, sclog |-> {}, ia |-> {}, pend |-> <<>>, calls |-> {}, rets |-> {}, typed |-> {}, lv |-> {}, loops |-> {}, executes |-> 0]

\* the array ArraySet is about to build from [.., arr, idx, val]
ExpectedArray(m) ==
    LET arr == VMPeek(m, 2)
        idx == VMPeek(m, 1)
        val == VMPeek(m, 0)
    IN IF Len(m.stack) < 3 \/ arr.tag # "Array" \/ idx.tag # "Integer" THEN <<>>
       ELSE IF ActualIdx(arr.v, idx.v) < 0 THEN <<>>
       ELSE <<[was |-> arr, idx |-> idx.v, val |-> val, array |-> VArray([arr.v EXCEPT ![ActualIdx(arr.v, idx.v) + 1] = val])]>>

\* the value a variable holds once StoreLocal / StoreGlobal has executed
StoredValue(m2, frame, instr) ==
    IF instr.op = "StoreLocal" THEN m2.stack[frame.stack_offset + instr.a + 1]
    ELSE m2.globals[frame.function.chunk.constants[instr.a + 1].v]

\* what is observed when the instruction at ip of the current frame is
\* fetched: m is the VM before the step
GhostFetch(g, m, types) ==
    LET d == m.current_frame + 1
        f == CurFrame(m)
        c == f.function.chunk
        ip == f.ip
        h == Len(m.stack)
        opening == {[start |-> sp.start, end |-> sp.end, kind |-> sp.kind, depth |-> sp.depth, h0 |-> h] :
                        sp \in {c.spans[i] : i \in 1..Len(c.spans)} \cap {sp \in {c.spans[i] : i \in 1..Len(c.spans)} :
                            /\ sp.start = ip
                            /\ sp.end > sp.start
                            /\ ~\E o \in g.fr[d].open : o.start = sp.start /\ o.end = sp.end /\ o.kind = sp.kind /\ o.depth = sp.depth}}
        tests == {[at |-> e.at, isAnd |-> e.isAnd, L |-> e.L, aVal |-> VMPeek(m, 0), below |-> SubSeq(m.stack, 1, h - 1), h0 |-> h, ranB |-> FALSE] :
                        e \in {e \in {c.sc[i] : i \in 1..Len(c.sc)} : e.at = ip /\ h >= 1}}
        marked == {IF e.at + 2 = ip THEN [e EXCEPT !.ranB = TRUE] ELSE e : e \in g.fr[d].sc}
        seen == {[site |-> n.site, ty |-> types[n.site + 1], val |-> VMPeek(m, 0)] :
                        n \in {n \in {c.typed[i] : i \in 1..Len(c.typed)} : n.at = ip /\ h >= 1 /\ n.site < Len(types)}}
        isIa == \E i \in 1..Len(c.ia) : c.ia[i].at = ip /\ c.ia[i].isVar
        isLoop == \E i \in 1..Len(c.lp) : c.lp[i].start = ip
    IN [g EXCEPT !.fr[d].open = @ \cup opening,
                 !.fr[d].lh = IF isLoop THEN {e \in @ : e.start # ip} \cup {[start |-> ip, h |-> h]} ELSE @,
                 !.fr[d].sc = marked \cup tests,
                 !.fr[d].env = IF h >= 1 THEN Declare(@, c.decl, ip, VMPeek(m, 0)) ELSE @,
                 !.typed = @ \cup seen,
                 !.pend = IF isIa THEN ExpectedArray(m) ELSE <<>>]

\* what is observed of the instruction's effect: m2 is the VM after it
GhostEffect(g0, g, m, m2) ==
    LET d == m.current_frame + 1
        f == CurFrame(m)
        ip == f.ip
        instr == Fetch(m)
        h == Len(m.stack)
        n == instr.a
        called == instr.op = "Call" /\ m2.status = "running" /\ Len(m2.frames) = Len(m.frames) + 1
        returned == instr.op = "Return" /\ m2.status = "running" /\ Len(m2.frames) = Len(m.frames) - 1
        args == SubSeq(m.stack, h - n + 1, h)
        callee == Last(m2.frames)
        entered == [n |-> n, stack_offset |-> callee.stack_offset, arg1 |-> h - n - 1, ip |-> callee.ip,
                 params |-> [k \in 1..n |-> ExecLoadLocal(m2, k - 1)], args |-> args, depth |-> Len(m2.frames),
                 recursive |-> callee.function.name = f.function.name]
        left == [stack |-> m2.stack, pre |-> g.fr[d].pre, result |-> VMPeek(m, 0), frames |-> Len(m2.frames),
                current_frame |-> m2.current_frame, was |-> d, ip |-> m2.frames[d - 1].ip, retip |-> g.fr[d].retip,
                locals |-> h - 1 - Len(g.fr[d].pre) - Len(g.fr[d].args)]
        stored == instr.op \in {"StoreLocal", "StoreGlobal"} /\ g0.pend # <<>> /\ m2.status = "running"
        notes == {nt \in {f.function.chunk.lv[i] : i \in 1..Len(f.function.chunk.lv)} : nt.at = ip}
        at == f.stack_offset + instr.a + 1
        used == {[op |-> instr.op, fn |-> f.function.name, name |-> nt.name, slot |-> nt.slot,
                  index |-> {e.index : e \in Bound(g.fr[d].env, nt)},
                  cur |-> IF instr.op = "StoreLocal" THEN (IF h >= 1 THEN {VMPeek(m, 0)} ELSE {}) ELSE {e.val : e \in Bound(g.fr[d].env, nt)},
                  holds |-> IF at <= Len(m2.stack) THEN {m2.stack[at]} ELSE {}] : nt \in notes}
        env == IF instr.op = "StoreLocal" /\ h >= 1
               THEN {IF \E nt \in notes : e \in Bound({e}, nt) THEN [e EXCEPT !.val = VMPeek(m, 0)] ELSE e : e \in g.fr[d].env}
               ELSE g.fr[d].env
        c == f.function.chunk
        looped == {[kind |-> c.lp[i].kind, fn |-> f.function.name, start |-> instr.a,
                    before |-> {e.h : e \in {e \in g.fr[d].lh : e.start = instr.a}}, after |-> Len(m2.stack)] :
                        i \in {i \in 1..Len(c.lp) : instr.op = "Loop" /\ m2.status = "running" /\ c.lp[i].start = instr.a}}
    IN [g EXCEPT !.fr = IF called THEN Append(@, [NewFrameGhost(SubSeq(m.stack, 1, h - n - 1), args, ip + 1) EXCEPT !.env = ParamEnv(callee.function.chunk, args)])
                        ELSE IF instr.op = "Return" /\ Len(m2.frames) = Len(m.frames) - 1 THEN Front(@)
                        ELSE [@ EXCEPT ![d].env = env],
                 !.lv = @ \cup used,
                 !.loops = @ \cup looped,
                 !.calls = IF called THEN @ \cup {entered} ELSE @,
                 !.rets = IF returned THEN @ \cup {left} ELSE @,
                 !.ia = IF stored THEN @ \cup {[expected |-> g0.pend[1].array, holds |-> StoredValue(m2, f, instr), was |-> g0.pend[1].was, idx |-> g0.pend[1].idx, val |-> g0.pend[1].val, op |-> instr.op]} ELSE @]

\* statements and short-circuit operators of the frame now current whose
\* code has been left are closed and logged
GhostClose(g, m2) ==
    LET d == m2.current_frame + 1
        ip == m2.frames[d].ip
        h == Len(m2.stack)
        left == {o \in g.fr[d].open : ip < o.start \/ ip >= o.end}
        done == {e \in g.fr[d].sc : ip = e.L}
    IN IF m2.status # "running" \/ d > Len(m2.frames) \/ d > Len(g.fr) THEN g
       ELSE [g EXCEPT !.fr[d].open = @ \ left,
                      !.fr[d].sc = @ \ done,
                      !.spans = @ \cup {[kind |-> o.kind, depth |-> o.depth, fn |-> m2.frames[d].function.name, h0 |-> o.h0, h1 |-> h] : o \in left},
                      !.sclog = @ \cup {[isAnd |-> e.isAnd, aVal |-> e.aVal, ranB |-> e.ranB, h0 |-> e.h0, h1 |-> h,
                                         top |-> IF h >= 1 THEN <<VMPeek(m2, 0)>> ELSE <<>>,
                                         kept |-> h >= 1 /\ SubSeq(m2.stack, 1, h - 1) = e.below] : e \in done}]

GhostStep(g, m, m2, types) ==
    IF ~FetchOk(m) THEN g
    ELSE GhostClose(GhostEffect(g, GhostFetch(g, m, types), m, m2), m2)

(***************************************************************************)
(* main.rs: run(source) and run_old(source).  The loops of                 *)
(* Lexer::tokenize, Parser::parse, TypeChecker::check, Compiler::compile,  *)
(* VM::run and Interpreter::interpret advance one iteration per step.      *)
(* run_old is started on the same source once run has ended; it has a      *)
(* lexer, a parser and an interpreter of its own, held in oldres.          *)
(***************************************************************************)
NotRun == "not run"

\* no bytecode file has been written or read
NoFile == [bytes |-> <<>>, loaded |-> [ok |-> FALSE, val |-> NotRun, pos |-> 0]]

Init ==
    /\ prog \in Programs
    /\ phase = "start"
    /\ lex_position = 0
    /\ tokens = <<>>
    /\ ast = PErr(NotRun, 0)
    /\ stmt_index = 0
    /\ tcres = [ok |-> FALSE, err |-> NotRun, types |-> <<>>, assigns |-> <<>>, checks |-> {}]
    /\ chunk = [ok |-> FALSE, err |-> NotRun, chunk |-> NewChunk]
    /\ stack = NewVM.stack
    /\ globals = NewVM.globals
    /\ frames = NewVM.frames
    /\ current_frame = NewVM.current_frame
    /\ output = NewVM.output
    /\ vmerr = [status |-> NotRun, err |-> "none"]
    /\ oldres = [phase |-> NotRun, position |-> 0, tokens |-> <<>>, ast |-> PErr(NotRun, 0), stmt |-> 0,
                 it |-> [status |-> NotRun, err |-> NotRun, output |-> <<>>]]
    /\ ghost = NewGhost
    /\ file = NoFile

\* the VM as one record
VMState == [stack |-> stack, globals |-> globals, frames |-> frames, current_frame |-> current_frame, output |-> output, status |-> vmerr.status, err |-> vmerr.err]

\* one iteration of the loop of Lexer::tokenize: the token is pushed, an
\* EOF token ends the loop
TokenizeStep_r(toks, pos, r) ==
    IF r.panic THEN [tokens |-> toks, position |-> pos, phase |-> "lexer_panic"]
    ELSE [tokens |-> Append(toks, r.token), position |-> r.position,
          phase |-> IF r.token.token_type = "EOF" THEN "lexed" ELSE "start"]

TokenizeStep(input, toks, pos) ==
    TokenizeStep_r(toks, pos, next_token(input, pos))

\* Parser::new, then the parser as the steps before left it
ParserState(a) == IF a.err = NotRun THEN POk(<<>>, 0) ELSE a

\* one iteration of the loop of Parser::parse; node holds the statements
\* parsed so far, pos is current
ParseStep_s(ts, a, s) ==
    IF Check(ts, a.pos, "EOF") THEN [ast |-> a, done |-> TRUE]
    ELSE IF ~s.ok THEN [ast |-> s, done |-> TRUE]
    ELSE [ast |-> POk(Append(a.node, s.node), s.pos), done |-> FALSE]

ParseStep(ts, a) ==
    ParseStep_s(ts, a, declaration(ts, a.pos))

\* TypeChecker::new, then the checker as the steps before left it
CheckerState(tc) == IF tc.err = NotRun THEN NewTypeChecker ELSE tc

\* one iteration of the loop of TypeChecker::check over statement i + 1
CheckStep_tc1(tc, program, i, tc1) ==
    IF i >= Len(program) THEN [tc |-> tc, done |-> TRUE]
    ELSE [tc |-> tc1, done |-> ~tc1.ok]

CheckStep(tc, program, i) ==
    CheckStep_tc1(tc, program, i, check_statement(tc, program[i + 1]))

\* Compiler::new, then the compiler as the steps before left it
CompilerState(c) == IF c.err = NotRun THEN NewCompiler ELSE c

\* one iteration of the loop of Compiler::compile over statement i + 1;
\* after the last one Halt is emitted
CompileStep_c1(c, program, i, c1) ==
    IF i >= Len(program) THEN [c |-> emit(c, Op0("Halt")), done |-> TRUE]
    ELSE [c |-> c1, done |-> ~c1.ok]

\* a compile that ends the top-level chunk without Halt
CompileStep_no_halt(c, program, i) ==
    IF i >= Len(program) THEN [c |-> c, done |-> TRUE]
    ELSE CompileStep_c1(c, program, i, compile_statement(c, program[i + 1]))

CompileStep(c, program, i) ==
    CompileStep_c1(c, program, i, compile_statement(c, program[i + 1]))

\* Interpreter::new, then the interpreter as the steps before left it
InterpreterState(it) == IF it.err = NotRun THEN NewInterpreter ELSE it

\* one iteration of the loop of Interpreter::interpret over statement
\* i + 1; Err(ReturnValue) at top level is a runtime error as any other
InterpretStep_it1(it, program, i, it1) ==
    IF i >= Len(program) THEN [it |-> it, done |-> TRUE]
    ELSE IF it1.status = "return" THEN [it |-> [it1 EXCEPT !.status = "err", !.err = "ReturnValue"], done |-> TRUE]
    ELSE [it |-> it1, done |-> it1.status # "ok"]

InterpretStep(it, program, i) ==
    InterpretStep_it1(it, program, i, execute_statement(it, program[i + 1]))

\* let tokens = lexer.tokenize();
Tokenize_r(r) ==
    /\ tokens' = r.tokens
    /\ lex_position' = r.position
    /\ phase' = r.phase

Tokenize ==
    /\ phase = "start"
    /\ Tokenize_r(TokenizeStep(prog, tokens, lex_position))
    /\ ghost' = [ghost EXCEPT !.ran = @ \cup {"lexer"}]
    /\ UNCHANGED <<prog, ast, stmt_index, tcres, chunk, stack, globals, frames, current_frame, output, vmerr, oldres, file>>

\* match parser.parse() { Ok(prog) => prog, Err(err) => process::exit(1) }
AfterParse(r) == IF r.ok THEN "parsed" ELSE "parse_error"

Parse_r(r) ==
    /\ ast' = r.ast
    /\ phase' = IF r.done THEN AfterParse(r.ast) ELSE "lexed"

Parse ==
    /\ phase = "lexed"
    /\ Parse_r(ParseStep(tokens, ParserState(ast)))
    /\ ghost' = [ghost EXCEPT !.ran = @ \cup {"parser"}]
    /\ UNCHANGED <<prog, lex_position, tokens, stmt_index, tcres, chunk, stack, globals, frames, current_frame, output, vmerr, oldres, file>>

\* run without the process::exit(1) of a type error
AfterCheck_goes_on(r) == "checked"

\* if let Err(err) = type_checker.check(&program) { process::exit(1) }
AfterCheck(r) == IF r.ok THEN "checked" ELSE IF r.err = NoReturn THEN "type_diverged" ELSE "type_error"

TypeCheck_r(r) ==
    /\ tcres' = r.tc
    /\ phase' = IF r.done THEN AfterCheck(r.tc) ELSE "parsed"
    /\ stmt_index' = IF r.done THEN 0 ELSE stmt_index + 1

TypeCheck ==
    /\ phase = "parsed"
    /\ TypeCheck_r(CheckStep(CheckerState(tcres), ast.node, stmt_index))
    /\ ghost' = [ghost EXCEPT !.ran = @ \cup {"type_checker"}]
    /\ UNCHANGED <<prog, lex_position, tokens, ast, chunk, stack, globals, frames, current_frame, output, vmerr, oldres, file>>

\* match compiler.compile(program) { Ok(chunk) => chunk, Err(err) => process::exit(1) }
AfterCompile(r) == IF r.ok THEN "compiled" ELSE "compile_error"

Compile_r(r) ==
    /\ chunk' = r.c
    /\ phase' = IF r.done THEN AfterCompile(r.c) ELSE "checked"
    /\ stmt_index' = IF r.done THEN 0 ELSE stmt_index + 1

Compile ==
    /\ phase = "checked"
    /\ Compile_r(CompileStep(CompilerState(chunk), ast.node, stmt_index))
    /\ ghost' = [ghost EXCEPT !.ran = @ \cup {"compiler"}]
    /\ UNCHANGED <<prog, lex_position, tokens, ast, tcres, stack, globals, frames, current_frame, output, vmerr, oldres, file>>

\* let mut vm = VM::new(); vm.execute(chunk) up to the call of run
Execute ==
    /\ phase = "compiled"
    /\ LET m == VMExecute(NewVM, chunk.chunk)
       IN /\ stack' = m.stack
          /\ globals' = m.globals
          /\ frames' = m.frames
          /\ current_frame' = m.current_frame
          /\ output' = m.output
          /\ vmerr' = [status |-> m.status, err |-> m.err]
    /\ phase' = "running"
    /\ ghost' = [ghost EXCEPT !.ran = @ \cup {"vm"}, !.fr = <<NewFrameGhost(<<>>, <<>>, 0)>>, !.executes = 1]
    /\ UNCHANGED <<prog, lex_position, tokens, ast, stmt_index, tcres, chunk, oldres, file>>

\* the phase the pipeline is in once VM::run has done one more iteration
AfterStep(m) ==
    CASE m.status = "running" -> "running"
      [] m.status = "halted" -> "done"
      [] m.status = "error" -> "runtime_error"
      [] OTHER -> "vm_panic"

\* one iteration of the loop of VM::run
VMStep_m(m) ==
    /\ stack' = m.stack
    /\ globals' = m.globals
    /\ frames' = m.frames
    /\ current_frame' = m.current_frame
    /\ output' = m.output
    /\ vmerr' = [status |-> m.status, err |-> m.err]
    /\ phase' = AfterStep(m)
    /\ ghost' = GhostStep(ghost, VMState, m, tcres.types)

VMStep ==
    /\ phase = "running"
    /\ VMStep_m(RunStep(VMState))
    /\ UNCHANGED <<prog, lex_position, tokens, ast, stmt_index, tcres, chunk, oldres, file>>

\* the pipeline has ended: process::exit(1), a panic, or the return of run
Ended == phase \in {"lexer_panic", "parse_error", "type_error", "type_diverged", "compile_error", "done", "runtime_error", "vm_panic"}

\* run_old: let tokens = lexer.tokenize();
OldTokenize_r(r) ==
    oldres' = [oldres EXCEPT !.tokens = r.tokens, !.position = r.position, !.phase = r.phase]

OldTokenize ==
    /\ Ended
    /\ oldres.phase \in {NotRun, "start"}
    /\ OldTokenize_r(TokenizeStep(prog, oldres.tokens, oldres.position))
    /\ UNCHANGED <<prog, phase, lex_position, tokens, ast, stmt_index, tcres, chunk, stack, globals, frames, current_frame, output, vmerr, ghost, file>>

\* run_old: match parser.parse() { Ok(prog) => prog, Err(err) => process::exit(1) }
OldParse_r(r) ==
    oldres' = [oldres EXCEPT !.ast = r.ast, !.phase = IF r.done THEN AfterParse(r.ast) ELSE "lexed"]

OldParse ==
    /\ oldres.phase = "lexed"
    /\ OldParse_r(ParseStep(oldres.tokens, ParserState(oldres.ast)))
    /\ UNCHANGED <<prog, phase, lex_position, tokens, ast, stmt_index, tcres, chunk, stack, globals, frames, current_frame, output, vmerr, ghost, file>>

\* if let Err(err) = interpreter.interpret(program) { process::exit(1) };
\* "cut off" is a run the model stops following
AfterInterpret(it) ==
    CASE it.status = "ok" -> "done"
      [] it.status = "fuel" -> "cut off"
      [] OTHER -> "runtime_error"

\* run_old: one iteration of the loop of interpreter.interpret(program)
Interpret_r(r) ==
    oldres' = [oldres EXCEPT !.it = r.it, !.stmt = IF r.done THEN 0 ELSE @ + 1,
                             !.phase = IF r.done THEN AfterInterpret(r.it) ELSE "parsed"]

Interpret ==
    /\ oldres.phase = "parsed"
    /\ Interpret_r(InterpretStep(InterpreterState(oldres.it), oldres.ast.node, oldres.stmt))
    /\ UNCHANGED <<prog, phase, lex_position, tokens, ast, stmt_index, tcres, chunk, stack, globals, frames, current_frame, output, vmerr, ghost, file>>

Next == Tokenize \/ Parse \/ TypeCheck \/ Compile \/ Execute \/ VMStep \/ OldTokenize \/ OldParse \/ Interpret

Spec == Init /\ [][Next]_vars

(***************************************************************************)
(* vm/mod.rs: VM::execute called again on a VM whose run has returned.     *)
(* The chunk is the compiled program once more.                            *)
(***************************************************************************)
\* calls of execute on one VM
MaxExecutes == 3

\* vm.execute(chunk) on the VM as the run before left it, up to the call of
\* run: neither new nor execute resets stack, frames or current_frame
ExecuteAgain ==
    /\ phase \in {"done", "runtime_error"}
    /\ ghost.executes < MaxExecutes
    /\ LET m == VMExecute(VMState, chunk.chunk)
       IN /\ stack' = m.stack
          /\ globals' = m.globals
          /\ frames' = m.frames
          /\ current_frame' = m.current_frame
          /\ output' = m.output
          /\ vmerr' = [status |-> "running", err |-> "none"]
    /\ phase' = "running"
    /\ ghost' = [ghost EXCEPT !.fr = Append(@, NewFrameGhost(<<>>, <<>>, 0)), !.executes = @ + 1]
    /\ UNCHANGED <<prog, lex_position, tokens, ast, stmt_index, tcres, chunk, oldres, file>>

ReuseNext == Tokenize \/ Parse \/ TypeCheck \/ Compile \/ Execute \/ VMStep \/ ExecuteAgain

ReuseSpec == Init /\ [][ReuseNext]_vars

(***************************************************************************)
(* lexer/mod.rs: Lexer::new(input).tokenize() on every input of at most    *)
(* MaxInput characters of LexAlphabet.                                     *)
(***************************************************************************)
MaxInput == 4

LexAlphabet == {"\"", "\\", "a", "1", " ", "/", "\n", "="}

LexInputs == UNION {[1..n -> LexAlphabet] : n \in 0..MaxInput}

LexerInit ==
    /\ prog \in LexInputs
    /\ phase = "start"
    /\ lex_position = 0
    /\ tokens = <<>>
    /\ ast = PErr(NotRun, 0)
    /\ stmt_index = 0
    /\ tcres = [ok |-> FALSE, err |-> NotRun, types |-> <<>>, assigns |-> <<>>, checks |-> {}]
    /\ chunk = [ok |-> FALSE, err |-> NotRun, chunk |-> NewChunk]
    /\ stack = NewVM.stack
    /\ globals = NewVM.globals
    /\ frames = NewVM.frames
    /\ current_frame = NewVM.current_frame
    /\ output = NewVM.output
    /\ vmerr = [status |-> NotRun, err |-> "none"]
    /\ oldres = [phase |-> NotRun, position |-> 0, tokens |-> <<>>, ast |-> PErr(NotRun, 0), stmt |-> 0,
                 it |-> [status |-> NotRun, err |-> NotRun, output |-> <<>>]]
    /\ ghost = NewGhost
    /\ file = NoFile

LexerNext == Tokenize

LexerSpec == LexerInit /\ [][LexerNext]_vars

(***************************************************************************)
(* main.rs: run(source) on programs whose calls nest without end.  The run *)
(* of the VM is followed as far as MaxFrames call frames.                  *)
(***************************************************************************)
\* `fn f(a, ..) { f(a, ..); } f(1, ..);` with n parameters
SelfCallParams == <<"a", "b">>

SelfCallArgs == <<"1", "2">>

RECURSIVE Listed(_, _)
Listed(words, n) == IF n = 0 THEN <<>> ELSE IF n = 1 THEN <<words[1]>> ELSE Listed(words, n - 1) \o <<",", words[n]>>

SelfCallProg(n) ==
    <<"fn", "f", "(">> \o Listed(SelfCallParams, n) \o <<")", "{", "f", "(">> \o Listed(SelfCallParams, n) \o <<")", ";", "}",
      "f", "(">> \o Listed(SelfCallArgs, n) \o <<")", ";">>

\* the arities of the self-calling functions
MaxArity == 2

SelfCallPrograms == {Src(SelfCallProg(n)) : n \in 0..MaxArity}

\* call frames up to which a run is followed
MaxFrames == 6

RecursionInit ==
    /\ prog \in SelfCallPrograms
    /\ phase = "start"
    /\ lex_position = 0
    /\ tokens = <<>>
    /\ ast = PErr(NotRun, 0)
    /\ stmt_index = 0
    /\ tcres = [ok |-> FALSE, err |-> NotRun, types |-> <<>>, assigns |-> <<>>, checks |-> {}]
    /\ chunk = [ok |-> FALSE, err |-> NotRun, chunk |-> NewChunk]
    /\ stack = NewVM.stack
    /\ globals = NewVM.globals
    /\ frames = NewVM.frames
    /\ current_frame = NewVM.current_frame
    /\ output = NewVM.output
    /\ vmerr = [status |-> NotRun, err |-> "none"]
    /\ oldres = [phase |-> NotRun, position |-> 0, tokens |-> <<>>, ast |-> PErr(NotRun, 0), stmt |-> 0,
                 it |-> [status |-> NotRun, err |-> NotRun, output |-> <<>>]]
    /\ ghost = NewGhost
    /\ file = NoFile

\* one iteration of the loop of VM::run, nothing observed
VMRun_m(m) ==
    /\ stack' = m.stack
    /\ globals' = m.globals
    /\ frames' = m.frames
    /\ current_frame' = m.current_frame
    /\ output' = m.output
    /\ vmerr' = [status |-> m.status, err |-> m.err]
    /\ phase' = AfterStep(m)

VMRun ==
    /\ phase = "running"
    /\ Len(frames) < MaxFrames
    /\ VMRun_m(RunStep(VMState))
    /\ UNCHANGED <<prog, lex_position, tokens, ast, stmt_index, tcres, chunk, oldres, ghost, file>>

RecursionNext == Tokenize \/ Parse \/ TypeCheck \/ Compile \/ Execute \/ VMRun

RecursionSpec == RecursionInit /\ [][RecursionNext]_vars

(***************************************************************************)
(* vm/mod.rs: VM::execute on a chunk assembled by hand, the way the tests  *)
(* of the VM call it.  OperandChunk loads two constants and applies one    *)
(* instruction to them; PushLoopChunk pushes without end.                  *)
(***************************************************************************)
OperandValues ==
    {VInt(IntMin), VInt(IntMax), VInt(-4), VInt(-3), VInt(-1), VInt(0), VInt(1), VInt(2), VInt(3), VInt(7),
     VFloat(0, 1), VFloat(3, 2), VArray(<<>>), VArray(<<VInt(7), VInt(8), VInt(9)>>), VString(<<"a">>), VBool(TRUE), VNull}

OperandInstrs == {Op0("Divide"), Op0("Modulo"), Op0("ArrayGet")}

\* LoadConst 0; LoadConst 1; instr; Halt
OperandChunk(a, instr, b) ==
    [NewChunk EXCEPT !.code = <<Op("LoadConst", 0), Op("LoadConst", 1), instr, Op0("Halt")>>,
                     !.constants = <<a, b>>,
                     !.lines = <<1, 1, 1, 1>>]

\* 0: push; 1: Jump 0
PushLoopChunk(push) ==
    [NewChunk EXCEPT !.code = <<push, Op("Jump", 0)>>,
                     !.constants = <<VInt(1)>>,
                     !.lines = <<1, 1>>]

PushInstrs == {Op0("LoadNull"), Op("LoadConst", 0), Op0("Dup")}

VMChunks ==
    {OperandChunk(a, instr, b) : a \in OperandValues, instr \in OperandInstrs, b \in OperandValues}
    \cup {PushLoopChunk(push) : push \in PushInstrs}

\* let mut vm = VM::new(); vm.execute(chunk) up to the call of run
VMInit ==
    /\ prog = <<>>
    /\ phase = "running"
    /\ lex_position = 0
    /\ tokens = <<>>
    /\ ast = PErr(NotRun, 0)
    /\ stmt_index = 0
    /\ tcres = [ok |-> FALSE, err |-> NotRun, types |-> <<>>, assigns |-> <<>>, checks |-> {}]
    /\ \E c \in VMChunks :
          /\ chunk = [NewCompiler EXCEPT !.chunk = c]
          /\ frames = VMExecute(NewVM, c).frames
    /\ stack = NewVM.stack
    /\ globals = NewVM.globals
    /\ current_frame = NewVM.current_frame
    /\ output = NewVM.output
    /\ vmerr = [status |-> NewVM.status, err |-> NewVM.err]
    /\ oldres = [phase |-> NotRun, position |-> 0, tokens |-> <<>>, ast |-> PErr(NotRun, 0), stmt |-> 0,
                 it |-> [status |-> NotRun, err |-> NotRun, output |-> <<>>]]
    /\ ghost = [NewGhost EXCEPT !.ran = {"vm"}, !.fr = <<NewFrameGhost(<<>>, <<>>, 0)>>]
    /\ file = NoFile

VMNext == VMStep

VMSpec == VMInit /\ [][VMNext]_vars

(***************************************************************************)
(* bytecode/serializer.rs.  A file is a sequence of bytes 0..255.  The     *)
(* eight bytes of an f64 are not computed: byte k of the bit pattern of    *)
(* the float q is the number F64Byte(q, k), which lies outside 0..255 and  *)
(* names q and k.  A reader's result is [ok, val, pos]: pos is the 0-based *)
(* offset of the next byte to read, ok = FALSE is the Err a `?` returns.   *)
(***************************************************************************)
MAGIC == <<90, 69, 82, 79>>

VERSION_MAJOR == 0

VERSION_MINOR == 1

\* u16::to_le_bytes, u32::to_le_bytes (after `as u32`), i64::to_le_bytes
U16Bytes(n) == <<n % 256, (n \div 256) % 256>>

U32Bytes(n) == <<n % 256, (n \div 256) % 256, (n \div 65536) % 256, (n \div 16777216) % 256>>

I64Bytes(i) ==
    IF i >= 0 THEN U32Bytes(i) \o <<0, 0, 0, 0>>
    ELSE [k \in 1..8 |-> 255 - (U32Bytes(-i - 1) \o <<0, 0, 0, 0>>)[k]]

F64Byte(q, k) == -(((q[1] + 4096) * 8192 + q[2]) * 8 + k)

F64Bytes(q) == [k \in 1..8 |-> F64Byte(q, k)]

\* the characters U+0020 .. U+007E in code order; "grave" holds the place of
\* U+0060, which no text here contains
AsciiChars ==
    <<" ", "!", "\"", "#", "$", "%", "&", "'", "(", ")", "*", "+", ",", "-", ".", "/",
      "0", "1", "2", "3", "4", "5", "6", "7", "8", "9", ":", ";", "<", "=", ">", "?",
      "@", "A", "B", "C", "D", "E", "F", "G", "H", "I", "J", "K", "L", "M", "N", "O",
      "P", "Q", "R", "S", "T", "U", "V", "W", "X", "Y", "Z", "[", "\\", "]", "^", "_",
      "grave", "a", "b", "c", "d", "e", "f", "g", "h", "i", "j", "k", "l", "m", "n", "o",
      "p", "q", "r", "s", "t", "u", "v", "w", "x", "y", "z", "{", "|", "}", "~">>

\* str::as_bytes
AsBytes(s) == [k \in 1..Len(s) |-> 31 + (CHOOSE i \in 1..Len(AsciiChars) : AsciiChars[i] = s[k])]

\* the opcodes written with a u32 operand, and the byte of each opcode
OperandOps == {"LoadConst", "LoadLocal", "StoreLocal", "LoadGlobal", "StoreGlobal", "Jump", "JumpIfFalse", "JumpIfTrue", "Loop", "Call", "NewArray", "NewStruct", "FieldGet", "FieldSet"}

OpcodeTable ==
    <<<<"LoadConst", 0>>, <<"LoadNull", 1>>, <<"LoadLocal", 2>>, <<"StoreLocal", 3>>, <<"LoadGlobal", 4>>, <<"StoreGlobal", 5>>,
      <<"Add", 16>>, <<"Subtract", 17>>, <<"Multiply", 18>>, <<"Divide", 19>>, <<"Modulo", 20>>, <<"Negate", 21>>,
      <<"Equal", 32>>, <<"NotEqual", 33>>, <<"Greater", 34>>, <<"GreaterEqual", 35>>, <<"Less", 36>>, <<"LessEqual", 37>>,
      <<"Not", 48>>, <<"And", 49>>, <<"Or", 50>>,
      <<"Jump", 64>>, <<"JumpIfFalse", 65>>, <<"JumpIfTrue", 66>>, <<"Loop", 67>>,
      <<"Call", 80>>, <<"Return", 81>>,
      <<"NewArray", 96>>, <<"ArrayGet", 97>>, <<"ArraySet", 98>>, <<"ArrayLen", 99>>,
      <<"NewStruct", 100>>, <<"FieldGet", 101>>, <<"FieldSet", 102>>,
      <<"Pop", 112>>, <<"Dup", 113>>, <<"Print", 240>>, <<"Halt", 255>>>>

\* BytecodeSerializer::write_opcode
write_opcode(opcode) ==
    LET row == CHOOSE i \in 1..Len(OpcodeTable) : OpcodeTable[i][1] = opcode.op
    IN <<OpcodeTable[row][2]>> \o (IF opcode.op \in OperandOps THEN U32Bytes(opcode.a) ELSE <<>>)

\* the concatenation of a sequence of byte sequences
RECURSIVE ConcatAll(_)
ConcatAll(ss) ==
    IF ss = <<>> THEN <<>>
    ELSE IF Len(ss) = 1 THEN ss[1]
    ELSE ConcatAll(SubSeq(ss, 1, Len(ss) \div 2)) \o ConcatAll(SubSeq(ss, Len(ss) \div 2 + 1, Len(ss)))

RECURSIVE write_value(_)
RECURSIVE write_function(_)
\* the counts, constants, code and line table of a chunk, as serialize and
\* write_function both write them
WriteChunk(c) ==
    U32Bytes(Len(c.constants)) \o U32Bytes(Len(c.code))
    \o ConcatAll([i \in 1..Len(c.constants) |-> write_value(c.constants[i])])
    \o ConcatAll([i \in 1..Len(c.code) |-> write_opcode(c.code[i])])
    \o ConcatAll([i \in 1..Len(c.lines) |-> U32Bytes(c.lines[i])])

\* BytecodeSerializer::write_value
write_value(value) ==
    CASE value.tag = "Integer" -> <<1>> \o I64Bytes(value.v)
      [] value.tag = "Float" -> <<2>> \o F64Bytes(value.v)
      [] value.tag = "String" -> <<3>> \o U32Bytes(Len(value.v)) \o AsBytes(value.v)
      [] value.tag = "Boolean" -> <<4, IF value.v THEN 1 ELSE 0>>
      [] value.tag = "Array" -> <<5>> \o U32Bytes(Len(value.v)) \o ConcatAll([i \in 1..Len(value.v) |-> write_value(value.v[i])])
      [] value.tag = "Function" -> <<6>> \o write_function(value.v)
      [] OTHER -> <<7>>

\* a function written with its two counts in the other order
write_function_locals_first(func) ==
    U32Bytes(Len(func.name)) \o AsBytes(func.name) \o U32Bytes(func.locals_count) \o U32Bytes(func.arity) \o WriteChunk(func.chunk)

\* BytecodeSerializer::write_function
write_function(func) ==
    U32Bytes(Len(func.name)) \o AsBytes(func.name) \o U32Bytes(func.arity) \o U32Bytes(func.locals_count) \o WriteChunk(func.chunk)

\* BytecodeSerializer::serialize
serialize(c) ==
    MAGIC \o U16Bytes(VERSION_MAJOR) \o U16Bytes(VERSION_MINOR) \o WriteChunk(c)

ReadOk(val, pos) == [ok |-> TRUE, val |-> val, pos |-> pos]

ReadErr(kind, pos) == [ok |-> FALSE, val |-> kind, pos |-> pos]

\* Read::read_exact of n bytes
read_exact(bytes, pos, n) ==
    IF pos + n > Len(bytes) THEN ReadErr("UnexpectedEof", pos)
    ELSE ReadOk(SubSeq(bytes, pos + 1, pos + n), pos + n)

IsBytes(bs) == \A k \in 1..Len(bs) : bs[k] \in 0..255

\* u16::from_le_bytes, u32::from_le_bytes
FromLe(bs) == IF Len(bs) = 2 THEN bs[1] + 256 * bs[2] ELSE bs[1] + 256 * bs[2] + 65536 * bs[3] + 16777216 * bs[4]

\* i64::from_le_bytes, for the values whose upper half is their sign
I64FromLe(bs) ==
    IF bs[8] < 128 THEN FromLe(SubSeq(bs, 1, 4))
    ELSE -FromLe([k \in 1..4 |-> 255 - bs[k]]) - 1

\* f64::from_le_bytes: the float whose bit pattern the eight bytes are
F64FromLe(bs) ==
    LET code == (-bs[1]) \div 8
    IN <<code \div 8192 - 4096, code % 8192>>

\* String::from_utf8
FromUtf8(bs) == [k \in 1..Len(bs) |-> AsciiChars[bs[k] - 31]]

\* BytecodeDeserializer::read_u32
read_u32_r(r) == IF ~r.ok THEN r ELSE ReadOk(FromLe(r.val), r.pos)

read_u32(bytes, pos) == read_u32_r(read_exact(bytes, pos, 4))

\* BytecodeDeserializer::read_opcode
read_opcode_operand(name, r) == IF ~r.ok THEN r ELSE ReadOk(Op(name, r.val), r.pos)

read_opcode_row(bytes, r, rows) ==
    IF ~r.ok THEN r
    ELSE IF rows = {} THEN ReadErr("InvalidData", r.pos)
    ELSE LET name == OpcodeTable[CHOOSE i \in rows : TRUE][1]
         IN IF name \in OperandOps THEN read_opcode_operand(name, read_u32(bytes, r.pos))
            ELSE ReadOk(Op0(name), r.pos)

read_opcode_r(bytes, r) ==
    read_opcode_row(bytes, r, IF r.ok THEN {i \in 1..Len(OpcodeTable) : OpcodeTable[i][2] = r.val[1]} ELSE {})

read_opcode(bytes, pos) == read_opcode_r(bytes, read_exact(bytes, pos, 1))

\* for _ in 0..code_count { code.push(read_opcode(reader)?) }
RECURSIVE read_opcodes(_, _, _, _)
read_opcodes_r(bytes, n, acc, r) ==
    IF ~r.ok THEN r ELSE read_opcodes(bytes, r.pos, n - 1, Append(acc, r.val))

read_opcodes(bytes, pos, n, acc) ==
    IF n = 0 THEN ReadOk(acc, pos) ELSE read_opcodes_r(bytes, n, acc, read_opcode(bytes, pos))

\* for _ in 0..code_count { lines.push(read_u32(reader)? as usize) }
RECURSIVE read_lines(_, _, _, _)
read_lines_r(bytes, n, acc, r) ==
    IF ~r.ok THEN r ELSE read_lines(bytes, r.pos, n - 1, Append(acc, r.val))

read_lines(bytes, pos, n, acc) ==
    IF n = 0 THEN ReadOk(acc, pos) ELSE read_lines_r(bytes, n, acc, read_u32(bytes, pos))

RECURSIVE read_value(_, _)
RECURSIVE read_values(_, _, _, _)
RECURSIVE read_function(_, _)
\* the counts, constants, code and line table of a chunk, as deserialize and
\* read_function both read them
ReadChunk_lines(constants, code, lines) ==
    IF ~constants.ok THEN constants
    ELSE IF ~code.ok THEN code
    ELSE IF ~lines.ok THEN lines
    ELSE ReadOk([NewChunk EXCEPT !.code = code.val, !.constants = constants.val, !.lines = lines.val], lines.pos)

ReadChunk_code(bytes, code_count, constants, code) ==
    ReadChunk_lines(constants, code, IF code.ok THEN read_lines(bytes, code.pos, code_count.val, <<>>) ELSE code)

ReadChunk_constants(bytes, code_count, constants) ==
    ReadChunk_code(bytes, code_count, constants, IF constants.ok THEN read_opcodes(bytes, constants.pos, code_count.val, <<>>) ELSE constants)

ReadChunk_code_count(bytes, constants_count, code_count) ==
    IF ~constants_count.ok THEN constants_count
    ELSE IF ~code_count.ok THEN code_count
    ELSE ReadChunk_constants(bytes, code_count, read_values(bytes, code_count.pos, constants_count.val, <<>>))

ReadChunk_constants_count(bytes, constants_count) ==
    ReadChunk_code_count(bytes, constants_count, IF constants_count.ok THEN read_u32(bytes, constants_count.pos) ELSE constants_count)

ReadChunk(bytes, pos) ==
    ReadChunk_constants_count(bytes, read_u32(bytes, pos))

\* the payload of a value whose length is read first: a String's bytes
ReadString_bytes(r) ==
    IF ~r.ok THEN r
    ELSE IF ~IsBytes(r.val) \/ \E k \in 1..Len(r.val) : r.val[k] < 32 \/ r.val[k] > 126 THEN ReadErr("InvalidData", r.pos)
    ELSE ReadOk(FromUtf8(r.val), r.pos)

ReadString_len(bytes, len) ==
    IF ~len.ok THEN len ELSE ReadString_bytes(read_exact(bytes, len.pos, len.val))

ReadString(bytes, pos) == ReadString_len(bytes, read_u32(bytes, pos))

\* for _ in 0..len { arr.push(read_value(reader)?) }
read_values_r(bytes, n, acc, r) ==
    IF ~r.ok THEN r ELSE read_values(bytes, r.pos, n - 1, Append(acc, r.val))

read_values(bytes, pos, n, acc) ==
    IF n = 0 THEN ReadOk(acc, pos) ELSE read_values_r(bytes, n, acc, read_value(bytes, pos))

\* BytecodeDeserializer::read_value
read_value_payload(type_id, r) ==
    IF ~r.ok THEN r
    ELSE CASE type_id = 1 -> ReadOk(VInt(I64FromLe(r.val)), r.pos)
           [] type_id = 2 -> ReadOk([tag |-> "Float", v |-> F64FromLe(r.val)], r.pos)
           [] type_id = 3 -> ReadOk(VString(r.val), r.pos)
           [] type_id = 4 -> ReadOk(VBool(r.val[1] # 0), r.pos)
           [] type_id = 5 -> ReadOk(VArray(r.val), r.pos)
           [] OTHER -> ReadOk(VFunction(r.val), r.pos)

read_value_len(bytes, len) ==
    IF ~len.ok THEN len ELSE read_values(bytes, len.pos, len.val, <<>>)

read_value_type_id(bytes, r) ==
    IF ~r.ok THEN r
    ELSE CASE r.val[1] = 1 -> read_value_payload(1, read_exact(bytes, r.pos, 8))
           [] r.val[1] = 2 -> read_value_payload(2, read_exact(bytes, r.pos, 8))
           [] r.val[1] = 3 -> read_value_payload(3, ReadString(bytes, r.pos))
           [] r.val[1] = 4 -> read_value_payload(4, read_exact(bytes, r.pos, 1))
           [] r.val[1] = 5 -> read_value_payload(5, read_value_len(bytes, read_u32(bytes, r.pos)))
           [] r.val[1] = 6 -> read_value_payload(6, read_function(bytes, r.pos))
           [] r.val[1] = 7 -> ReadOk(VNull, r.pos)
           [] OTHER -> ReadErr("InvalidData", r.pos)

read_value(bytes, pos) == read_value_type_id(bytes, read_exact(bytes, pos, 1))

\* BytecodeDeserializer::read_function
read_function_chunk(name, arity, locals_count, c) ==
    IF ~c.ok THEN c
    ELSE ReadOk([name |-> name.val, arity |-> arity.val, chunk |-> c.val, locals_count |-> locals_count.val], c.pos)

read_function_locals_count(bytes, name, arity, locals_count) ==
    IF ~arity.ok THEN arity
    ELSE IF ~locals_count.ok THEN locals_count
    ELSE read_function_chunk(name, arity, locals_count, ReadChunk(bytes, locals_count.pos))

read_function_arity(bytes, name, arity) ==
    read_function_locals_count(bytes, name, arity, IF arity.ok THEN read_u32(bytes, arity.pos) ELSE arity)

read_function_name(bytes, name) ==
    IF ~name.ok THEN name ELSE read_function_arity(bytes, name, read_u32(bytes, name.pos))

read_function(bytes, pos) == read_function_name(bytes, ReadString(bytes, pos))

\* BytecodeDeserializer::deserialize
deserialize_version(bytes, major, minor) ==
    IF ~major.ok THEN major
    ELSE IF ~minor.ok THEN minor
    ELSE IF FromLe(major.val) # VERSION_MAJOR THEN ReadErr("InvalidData", minor.pos)
    ELSE ReadChunk(bytes, minor.pos)

deserialize_magic(bytes, magic) ==
    IF ~magic.ok THEN magic
    ELSE IF magic.val # MAGIC THEN ReadErr("InvalidData", magic.pos)
    ELSE deserialize_version(bytes, read_exact(bytes, 4, 2), read_exact(bytes, 6, 2))

deserialize(bytes) == deserialize_magic(bytes, read_exact(bytes, 0, 4))

(***************************************************************************)
(* main.rs: compile_to_bytecode(source, output_file), then                 *)
(* run_bytecode_file(output_file) up to the chunk it hands to the VM.      *)
(***************************************************************************)
\* BytecodeSerializer::serialize(&chunk, &mut writer)
Serialize ==
    /\ phase = "compiled"
    /\ file' = [file EXCEPT !.bytes = serialize(chunk.chunk)]
    /\ phase' = "saved"
    /\ UNCHANGED <<prog, lex_position, tokens, ast, stmt_index, tcres, chunk, stack, globals, frames, current_frame, output, vmerr, oldres, ghost>>

\* match BytecodeDeserializer::deserialize(&mut reader) { Ok(c) => c, Err(err) => process::exit(1) }
AfterLoad(r) == IF r.ok THEN "loaded" ELSE "load_error"

Deserialize_r(r) ==
    /\ file' = [file EXCEPT !.loaded = r]
    /\ phase' = AfterLoad(r)

Deserialize ==
    /\ phase = "saved"
    /\ Deserialize_r(deserialize(file.bytes))
    /\ UNCHANGED <<prog, lex_position, tokens, ast, stmt_index, tcres, chunk, stack, globals, frames, current_frame, output, vmerr, oldres, ghost>>

CodecNext == Tokenize \/ Parse \/ TypeCheck \/ Compile \/ Serialize \/ Deserialize

CodecSpec == Init /\ [][CodecNext]_vars

(***************************************************************************)
(* Properties.                                                             *)
(***************************************************************************)
\* Compiler::compile has returned Ok(chunk)
CompileFinished == phase \in {"compiled", "running", "done", "runtime_error", "vm_panic"}

\* a chunk and the chunk of every function among its constants, nested ones included
RECURSIVE ChunksOf(_)
ChunksOf(c) ==
    {c} \cup UNION {ChunksOf(c.constants[i].v.chunk) : i \in {i \in 1..Len(c.constants) : c.constants[i].tag = "Function"}}

JumpOps == {"Jump", "JumpIfFalse", "JumpIfTrue", "Loop"}

JumpsValid(c) ==
    \A i \in 1..Len(c.code) : c.code[i].op \in JumpOps => (0 <= c.code[i].a /\ c.code[i].a < Len(c.code))

\* C1: once compilation has finished with Ok, in the top-level chunk and in
\* the chunk of every function the operand t of every Jump, JumpIfFalse,
\* JumpIfTrue and Loop satisfies 0 <= t < length of that chunk's code.
C1_JumpTargetsValid ==
    CompileFinished => \A c \in ChunksOf(chunk.chunk) : JumpsValid(c)

\* C1 witness: compilation has just finished; a function's chunk holds a
\* Loop back to the loop's start and a forward jump patched past it, and the
\* top-level chunk holds a forward jump patched to its last instruction.
C1_Witness ==
    /\ phase = "compiled"
    /\ \E c \in ChunksOf(chunk.chunk) \ {chunk.chunk} :
          \E i, j \in 1..Len(c.code) :
              /\ c.code[i].op = "Loop" /\ c.code[i].a < i - 1
              /\ c.code[j].op = "JumpIfFalse" /\ c.code[j].a > i - 1
    /\ \E i \in 1..Len(chunk.chunk.code) :
          chunk.chunk.code[i].op = "Jump" /\ chunk.chunk.code[i].a = Len(chunk.chunk.code) - 1

\* a declaration inside a block or a function body: its value stays on the
\* stack as the slot of the local it declares
LocalDeclaration(s) == s.kind \in {"VarDeclaration", "FnDeclaration"} /\ s.depth > 0

\* C2: whenever the VM has executed the code of a whole statement, at top
\* level or in a function body, the stack is as high as it was when the
\* statement started.  (A statement left by Return is not logged; the slot a
\* local declaration leaves for its variable is not counted.)
C2_StatementKeepsHeight ==
    \A s \in ghost.spans : ~LocalDeclaration(s) => s.h1 = s.h0

\* C2 witness: the expression statement `a[1] = 99;` at top level has been
\* executed and has left the stack one higher than it found it.
C2_Witness ==
    /\ prog = Src(ArrayProg("var", <<"1">>))
    /\ \E s \in ghost.spans : s.kind = "Expression" /\ s.depth = 0 /\ s.fn = "<script>" /\ s.h1 = s.h0 + 1

\* C3: once the VM has executed the code of `a[i] = v` for a variable a
\* holding an array and an index i in range, a holds the array it held
\* before with the element at i replaced by v.
C3_IndexAssignUpdatesArray ==
    \A e \in ghost.ia : e.holds = e.expected

\* C3 witness: `a[1] = 99` has been executed on a = [1, 2, 3]; a should hold
\* [1, 99, 3] and holds the integer 99.
C3_Witness ==
    \E e \in ghost.ia :
        /\ e.was = VArray(<<VInt(1), VInt(2), VInt(3)>>) /\ e.idx = 1 /\ e.val = VInt(99)
        /\ e.expected = VArray(<<VInt(1), VInt(99), VInt(3)>>)
        /\ e.holds = VInt(99)

\* the lines `0`, ..., `n - 1`
CountLines(n) == [k \in 1..n |-> <<DigitChar(k - 1)>>]

\* C5: the program `let i = 0; while i < n { print(i); i = i + 1; }` passes
\* every phase, the VM prints 0, ..., n - 1 in that order and halts.
C5_LetCounterRuns ==
    \A n \in 0..MaxCount :
        (prog = Src(Counting("let", n)) /\ Ended) => (phase = "done" /\ output = CountLines(n))

\* C5 witness: the pipeline has ended on `let i = 0; while i < 3 { ... }`:
\* the type checker has rejected `i = i + 1` and nothing was printed.
C5_Witness ==
    /\ prog = Src(Counting("let", MaxCount))
    /\ phase = "type_error"
    /\ tcres.err = "ImmutableAssignment"
    /\ output = <<>>

\* C7: if the interpreter has run a program to its end, and the program was
\* compiled, then the VM has run it to its end too and has printed the same
\* lines.
C7_SameOutput ==
    (oldres.phase = "done" /\ CompileFinished) => (phase = "done" /\ output = oldres.it.output)

\* C7 witness: both have run `print([1, 2]);` to the end; the interpreter
\* has printed `Array[2]` and the VM `[1, 2]`.
C7_Witness ==
    /\ oldres.phase = "done"
    /\ phase = "done"
    /\ oldres.it.output = <<<<"A", "r", "r", "a", "y", "[", "2", "]">>>>
    /\ output = <<<<"[", "1", ",", " ", "2", "]">>>>

\* the tag of the values of a type
TagOf(t) ==
    CASE t.k = "Int" -> "Integer"
      [] t.k = "Float" -> "Float"
      [] t.k = "String" -> "String"
      [] t.k = "Bool" -> "Boolean"
      [] t.k = "Array" -> "Array"
      [] t.k = "Function" -> "Function"
      [] OTHER -> "Null"

\* C8: every value the VM has produced for a declared variable's
\* initializer or a print's operand to which the checker gave a type T other
\* than Unknown has the tag of T.
C8_TagMatchesType ==
    \A t \in ghost.typed : t.ty # TUnknown => t.val.tag = TagOf(t.ty)

\* C8 witness: the VM has produced null for a variable the checker typed
\* Int (`let y: int;`).
C8_Witness ==
    \E t \in ghost.typed : t.ty = TInt /\ t.val = VNull

\* C4: a Call(n) the VM has executed on [.., f, arg1..argn] has started the
\* callee's frame at ip 0 with stack_offset at arg1, so that LoadLocal(k - 1)
\* reads argument k; a Return the VM has executed has left the stack as it
\* was before f was pushed with the returned value on top, has removed the
\* callee's frame and has resumed the caller after the Call.
C4_CallReturnProtocol ==
    /\ \A e \in ghost.calls :
          /\ e.stack_offset = e.arg1
          /\ e.ip = 0
          /\ \A k \in 1..e.n : e.params[k].status = "running" /\ VMPeek(e.params[k], 0) = e.args[k]
    /\ \A r \in ghost.rets :
          /\ r.stack = r.pre \o <<r.result>>
          /\ r.frames = r.was - 1
          /\ r.current_frame = r.was - 2
          /\ r.ip = r.retip

\* C4 witness: a call with two arguments and a recursive call from a callee
\* (three frames deep) have been executed and the recursive callee has
\* returned to its caller, itself a callee.
C4_Witness ==
    /\ \E e \in ghost.calls : e.n = 2 /\ e.args = <<VInt(6), VInt(7)>>
    /\ \E e \in ghost.calls : e.recursive /\ e.depth = 3 /\ e.n = 1
    /\ \E r \in ghost.rets : r.was = 3 /\ r.pre # <<>> /\ r.result = VInt(1)

\* a callee whose for loop ran no iteration has returned, and the caller's
\* stack is not what it was before the call with the result on top
C4_CallerLostValue ==
    /\ prog = Src(ZeroTripProg)
    /\ \E r \in ghost.rets : r.pre = <<VInt(1)>> /\ r.stack # r.pre \o <<r.result>>

OperandA == chunk.chunk.constants[1]

OperandB == chunk.chunk.constants[2]

\* the instruction `name` of an OperandChunk has just been executed
Applied(name) ==
    /\ Len(chunk.chunk.code) = 4
    /\ chunk.chunk.code[3].op = name
    /\ frames[1].ip = 3

VMRunning == vmerr = [status |-> "running", err |-> "none"]

VMFailed(kind) == vmerr = [status |-> "error", err |-> kind]

\* C11: ArrayGet on an array of length n with an Integer index i pushes
\* element i when 0 <= i < n and element n + i when -n <= i < 0; every
\* other i, an empty array included, fails with InvalidOperation and pushes
\* nothing; a non-Integer index or a non-array object fails with TypeError.
C11_ArrayGetIndexing ==
    Applied("ArrayGet") =>
        LET n == Len(OperandA.v)
            i == OperandB.v
        IN IF OperandB.tag # "Integer" \/ OperandA.tag # "Array" THEN VMFailed("TypeError") /\ stack = <<>>
           ELSE IF 0 <= i /\ i < n THEN VMRunning /\ stack = <<OperandA.v[i + 1]>>
           ELSE IF -n <= i /\ i < 0 THEN VMRunning /\ stack = <<OperandA.v[n + i + 1]>>
           ELSE VMFailed("InvalidOperation") /\ stack = <<>>

\* ArrayGet has read the last element through the index -1
C11_Witness ==
    /\ Applied("ArrayGet")
    /\ OperandA = VArray(<<VInt(7), VInt(8), VInt(9)>>)
    /\ OperandB = VInt(-1)
    /\ stack = <<VInt(9)>>

\* C12: Divide on two numbers fails with DivisionByZero exactly when the
\* divisor is zero and otherwise pushes a result; Modulo on two Integers
\* fails with DivisionByZero exactly when the divisor is 0 and otherwise
\* pushes the remainder; neither instruction ends in anything but a pushed
\* value or a VM error.
C12_DivideModuloTotal ==
    /\ Applied("Divide") \/ Applied("Modulo") => vmerr.status \in {"running", "error"}
    /\ Applied("Divide") /\ IsNum(OperandA) /\ IsNum(OperandB) =>
          IF AsF64(OperandB)[1] = 0 THEN VMFailed("DivisionByZero")
          ELSE VMRunning /\ Len(stack) = 1 /\ IsNum(stack[1])
    /\ Applied("Modulo") /\ OperandA.tag = "Integer" /\ OperandB.tag = "Integer" =>
          IF OperandB.v = 0 THEN VMFailed("DivisionByZero")
          ELSE VMRunning /\ stack = <<VInt(TruncRem(OperandA.v, OperandB.v))>>

\* the least Integer has been divided by -1
C12_Witness ==
    /\ Applied("Divide")
    /\ OperandA = VInt(IntMin)
    /\ OperandB = VInt(-1)
    /\ vmerr.status = "panic"

\* C13: the stack never holds more than 1024 values, and a push onto 1024
\* values fails with StackOverflow and adds nothing.
C13_StackBounded ==
    [][/\ Len(stack) <= StackMax
       /\ Len(stack') <= StackMax
       /\ (Len(stack) = StackMax /\ FetchOk(VMState) /\ Fetch(VMState) \in PushInstrs) =>
              (stack' = stack /\ vmerr' = [status |-> "error", err |-> "StackOverflow"])]_vars

\* a push has been refused on a full stack
C13_Witness ==
    /\ Len(stack) = StackMax
    /\ VMFailed("StackOverflow")

(***************************************************************************)
(* Properties of locals and frames, stated of Spec.                        *)
(***************************************************************************)
\* C14: a LoadLocal(s) or StoreLocal(s) emitted for a local v has s equal to
\* the index at which v was inserted in the function's locals, and once it
\* has executed stack[stack_offset + s] holds v's current value (the value
\* v was declared with or last assigned), whatever ran before in the
\* function.
C14_SlotHoldsLocal ==
    \A u \in ghost.lv :
        /\ u.index = {u.slot}
        /\ u.cur # {}
        /\ u.holds = u.cur

\* a local declared after an index assignment has been read
C14_Witness ==
    \E u \in ghost.lv :
        /\ u.op = "LoadLocal"
        /\ u.name = <<"b">>
        /\ u.cur = {VInt(7)}
        /\ u.holds # u.cur

\* C15: no instruction pops, peeks or reads a stack position below the
\* stack_offset of the frame it runs in, and while a frame is current the
\* stack is never lower than the frame's stack_offset.
C15_FrameOwnsItsStack ==
    [][(phase = "running" /\ FetchOk(VMState)) =>
          /\ Len(stack) - Reach(Fetch(VMState)) >= CurFrame(VMState).stack_offset
          /\ Len(stack) >= CurFrame(VMState).stack_offset
          /\ phase' = "running" => Len(stack') >= frames'[current_frame' + 1].stack_offset]_vars

\* a called function runs on a stack that is exactly as high as its
\* stack_offset, above values of its caller
C15_Witness ==
    /\ phase = "running"
    /\ current_frame >= 1
    /\ CurFrame(VMState).stack_offset >= 1
    /\ Len(stack) = CurFrame(VMState).stack_offset

\* in a called function whose for loop ran no iteration, the Pops of
\* end_scope have taken the stack below the frame's stack_offset
C15_PoppedBelow ==
    /\ prog = Src(ZeroTripProg)
    /\ phase = "running"
    /\ current_frame >= 1
    /\ Len(stack) < CurFrame(VMState).stack_offset

(***************************************************************************)
(* Properties of the bytecode file, stated of CodecSpec.                   *)
(***************************************************************************)
\* the fields the Rust Chunk has: code, constants (those of nested function
\* chunks included) and lines
RECURSIVE Bare(_)
Bare(c) ==
    [NewChunk EXCEPT !.code = c.code,
                     !.lines = c.lines,
                     !.constants = [i \in 1..Len(c.constants) |->
                                       IF c.constants[i].tag = "Function"
                                       THEN VFunction([c.constants[i].v EXCEPT !.chunk = Bare(@)])
                                       ELSE c.constants[i]]]

\* C16: for every chunk the compiler produces, deserialize(serialize(chunk))
\* succeeds and yields the same instructions, the same constants (nested
\* function chunks included) and the same line table.
C16_RoundTrip ==
    phase \in {"loaded", "load_error"} =>
        /\ file.loaded.ok
        /\ file.loaded.val = Bare(chunk.chunk)
        /\ file.loaded.pos = Len(file.bytes)

\* a chunk with a function constant that has constants of its own, a float
\* and a string has been written and read back
C16_Witness ==
    /\ phase = "loaded"
    /\ \E i \in 1..Len(file.loaded.val.constants) :
          /\ file.loaded.val.constants[i].tag = "Function"
          /\ file.loaded.val.constants[i].v.chunk.constants # <<>>
          /\ file.loaded.val.constants[i].v.arity # file.loaded.val.constants[i].v.locals_count

(***************************************************************************)
(* Properties of the type checker's named types, stated of Spec.           *)
(***************************************************************************)

\* the names bound in the checker's symbol table
BoundNames(tc) == UNION {DOMAIN tc.scopes[i] : i \in 1..Len(tc.scopes)}

\* a resolved type is a base type, or a Named whose name is not bound
BottomsOut(tc, r) == ~IsDiverges(r) /\ (r.k = "Named" => get(tc, r.of[1].of) = <<>>)

\* C17: resolving a named type terminates for every symbol table the checker
\* builds, a binding that names itself or a cycle of bindings included, and
\* the result is a base type or a Named whose name is unknown: no call of
\* resolve_type fails to return, and every bound name resolves.
C17_ResolveTerminates ==
    /\ phase # "type_diverged"
    /\ \A n \in BoundNames(CheckerState(tcres)) :
          BottomsOut(CheckerState(tcres), resolve_type(CheckerState(tcres), TNamed(n)))

\* the checker has finished a program in which a binding's type is a name
\* that resolve_type followed to a base type
C17_Witness ==
    /\ phase = "checked"
    /\ \E n \in BoundNames(CheckerState(tcres)) :
          /\ get(CheckerState(tcres), n)[1].symbol_type.k = "Named"
          /\ resolve_type(CheckerState(tcres), TNamed(n)) = TInt

(***************************************************************************)
(* Properties of the Unknown type, stated of Spec.                         *)
(***************************************************************************)

\* the tests of operand types the checker has made: the notes, and the
\* assignments that reached the test of compatibility
TypeChecks ==
    tcres.checks \cup
    {[construct |-> "Assign", operands |-> <<tcres.assigns[i].symbol_type, tcres.assigns[i].value_type>>,
      accepted |-> tcres.assigns[i].verdict = "ok"] :
        i \in {j \in 1..Len(tcres.assigns) : tcres.assigns[j].verdict \in {"ok", "TypeMismatch"}}}

\* what each test lets pass, as the code decides it
Accepts(construct, operands) ==
    CASE construct = "Not" -> operands[1] = TBool
      [] construct = "Negate" -> is_numeric(operands[1])
      [] construct = "Assign" -> ~(operands[1] # TUnknown /\ operands[2] # TUnknown /\ ~is_compatible_with(operands[1], operands[2]))
      [] construct = "Argument" -> is_compatible_with(operands[1], operands[2])
      [] construct = "Callee" -> operands[1].k = "Function"
      [] construct = "Condition" -> operands[1] = TBool \/ operands[1] = TUnknown
      [] construct \in {"ForBound", "Index"} -> operands[1] = TInt \/ operands[1] = TUnknown
      [] OTHER -> BinaryType(construct, operands[1], operands[2]) # <<>>

\* the types an Unknown operand may turn out to have
KnownTypes == {TInt, TFloat, TString, TBool, TFunction(<<TUnknown>>, TUnknown)}

\* the operands with every Unknown one replaced by a known type
Fillings(operands) ==
    {f \in [1..Len(operands) -> KnownTypes \cup {operands[i] : i \in 1..Len(operands)}] :
        \A i \in 1..Len(operands) : IF operands[i] = TUnknown THEN f[i] \in KnownTypes ELSE f[i] = operands[i]}

\* the test has an Unknown operand, and would pass were the Unknown operands
\* of some known type: Unknown is all that can make it fail
OnlyUnknownMismatch(c) ==
    /\ \E i \in 1..Len(c.operands) : c.operands[i] = TUnknown
    /\ \E f \in Fillings(c.operands) : Accepts(c.construct, f)

\* C18: the type checker never rejects a construct only because an operand's
\* type is Unknown: every test of operand types (binary operators, unary `!`
\* and `-`, assignment, call arguments, the callee's binding, conditions,
\* for-bounds, indexes) that has an Unknown operand and would pass for some
\* known type in its place is accepted.
C18_UnknownNeverRejected ==
    \A c \in TypeChecks : OnlyUnknownMismatch(c) => c.accepted

\* tests with an Unknown operand have been made and accepted: an arithmetic
\* one, a condition, a for-bound, an index and a call argument
C18_Witness ==
    /\ phase = "checked"
    /\ \A k \in {"Modulo", "Condition", "ForBound", "Index"} :
          \E c \in TypeChecks : c.construct = k /\ OnlyUnknownMismatch(c) /\ c.accepted

(***************************************************************************)
(* Compiler::compile on programs with structs.  The lexer has no `struct`  *)
(* keyword, so these programs are given to the compiler as the trees the   *)
(* parser's struct_declaration, primary and call build.                    *)
(***************************************************************************)
MaxFields == 3

FieldNames == <<"x", "y", "z", "w", "v">>

StructName == <<"P">>

\* `struct P { x: int, y: int, ... };` with n fields
StructDecl(n) == SStructDeclaration(StructName, [i \in 1..n |-> [name |-> <<FieldNames[i]>>, field_type |-> TInt]])

\* `P { x: 1, y: 2, ... }`
StructValue(n) == EStructLiteral(StructName, [i \in 1..n |-> [name |-> <<FieldNames[i]>>, value |-> EInteger(i)]])

\* `p.f` for the i-th declared field f
FieldOf(i) == EFieldAccess(EIdentifier(<<"p">>), <<FieldNames[i]>>)

\* `struct P { ... }; let p = P { ... }; print(p.fi + p.fj);`
StructReadProg(n, i, j) ==
    <<StructDecl(n), SVarDeclaration(<<"p">>, FALSE, <<>>, <<StructValue(n)>>, "Let"),
      SPrint(EBinary(FieldOf(i), "Add", FieldOf(j)))>>

\* `struct P { ... }; var p = P { ... }; p.fi = 9; print(p.fi);`
StructWriteProg(n, i) ==
    <<StructDecl(n), SVarDeclaration(<<"p">>, TRUE, <<>>, <<StructValue(n)>>, "Var"),
      SExpression(EFieldAssign(EIdentifier(<<"p">>), <<FieldNames[i]>>, EInteger(9))),
      SPrint(FieldOf(i))>>

\* the same statements at top level and in a block, where p is a local
StructPrograms ==
    LET top == UNION {{StructReadProg(n, i, j) : i \in 1..n, j \in 1..n} \cup {StructWriteProg(n, i) : i \in 1..n} :
                      n \in 1..MaxFields}
    IN top \cup {<<q[1], SBlock(Tail(q))>> : q \in top}

CompilerInit ==
    /\ prog = <<>>
    /\ phase = "checked"
    /\ lex_position = 0
    /\ tokens = <<>>
    /\ ast \in {POk(q, 0) : q \in StructPrograms}
    /\ stmt_index = 0
    /\ tcres = [ok |-> FALSE, err |-> NotRun, types |-> <<>>, assigns |-> <<>>, checks |-> {}]
    /\ chunk = [ok |-> FALSE, err |-> NotRun, chunk |-> NewChunk]
    /\ stack = NewVM.stack
    /\ globals = NewVM.globals
    /\ frames = NewVM.frames
    /\ current_frame = NewVM.current_frame
    /\ output = NewVM.output
    /\ vmerr = [status |-> NotRun, err |-> "none"]
    /\ oldres = [phase |-> NotRun, position |-> 0, tokens |-> <<>>, ast |-> PErr(NotRun, 0), stmt |-> 0,
                 it |-> [status |-> NotRun, err |-> NotRun, output |-> <<>>]]
    /\ ghost = NewGhost
    /\ file = NoFile

CompilerNext == Compile

CompilerSpec == CompilerInit /\ [][CompilerNext]_vars

(***************************************************************************)
(* Properties of struct fields, stated of CompilerSpec.                    *)
(***************************************************************************)

\* the declared positions (from 0) of a field name in the compiler's registry
DeclaredIndex(structs, field) ==
    {i - 1 : i \in {j \in 1..MaxFields + 1 : \E n \in DOMAIN structs : j <= Len(structs[n]) /\ structs[n][j] = field}}

\* C19: for a struct declared with fields f0, f1, ..., fk in that order, a
\* field access e.fi is lowered to FieldGet(i) and a field assignment
\* e.fi = v to FieldSet(i), i the declared position of the field named; so
\* the accesses p.x and p.y of struct P { x: int, y: int } use different
\* indices.
C19_FieldIndexIsDeclared ==
    \A k \in 1..Len(chunk.chunk.fld) :
        /\ chunk.chunk.code[chunk.chunk.fld[k].at + 1] = Op(chunk.chunk.fld[k].op, chunk.chunk.fld[k].index)
        /\ DeclaredIndex(chunk.structs, chunk.chunk.fld[k].field) = {chunk.chunk.fld[k].index}

\* the compiler has finished a program that reads or writes a field which
\* is not the first one declared
C19_Witness ==
    /\ phase = "compiled"
    /\ \E k \in 1..Len(chunk.chunk.fld) : DeclaredIndex(chunk.structs, chunk.chunk.fld[k].field) \cap {1, 2} # {}

(***************************************************************************)
(* Properties of the lexer's operators, stated of Spec.                    *)
(***************************************************************************)

\* the operators of more than one character: the types of TokenType that
\* stand for two characters
MultiCharOperators == {
    <<"=", "=">>, <<"!", "=">>, <<"<", "=">>, <<">", "=">>, <<"&", "&">>, <<"|", "|">>, <<".", ".">>, <<"-", ">">>,
    <<"+", "=">>, <<"-", "=">>, <<"*", "=">>, <<"/", "=">>, <<"%", "=">> }

\* the lexer has just made a token of the one character before
\* lex_position, and that character and the next are an operator
SplitOperator ==
    /\ tokens # <<>>
    /\ Last(tokens).token_type \notin {"String", "Identifier", "Integer", "Float", "EOF"}
    /\ Len(Last(tokens).value) = 1
    /\ lex_position >= 1
    /\ lex_position < Len(prog)
    /\ <<prog[lex_position], prog[lex_position + 1]>> \in MultiCharOperators

\* C20: the lexer emits each multi-character operator as one token, by
\* longest match: `==`, `!=`, `<=`, `>=`, `&&`, `||`, `..`, `->` and the
\* compound assignments are never split into two single-character tokens,
\* so the `->` of a function header reaches the parser as an Arrow token.
C20_LongestMatch == ~SplitOperator

\* the lexer has finished a text and made one token of `..`, of `==`, of
\* `<=` or of `&&`
C20_Witness ==
    /\ phase = "lexed"
    /\ \E i \in 1..Len(tokens) : tokens[i].token_type \in {"DotDot", "EqualEqual", "LessEqual", "And"} /\ Len(tokens[i].value) = 2

(***************************************************************************)
(* TypeChecker::check on functions with a declared return type.  The lexer *)
(* makes no Arrow token, so these programs are given to the checker as the *)
(* trees the parser's fn_declaration builds behind `->`.                   *)
(***************************************************************************)
ReturnTypes == <<TInt, TFloat, TString, TBool>>

\* a literal of the type
LiteralOf(t) ==
    CASE t = TInt -> EInteger(1)
      [] t = TFloat -> EFloat(<<3, 2>>)
      [] t = TString -> EString(<<"s">>)
      [] OTHER -> EBoolean(TRUE)

\* the values returned: a literal of each type, and the parameter x, whose
\* type is Unknown
ReturnValues == [i \in 1..Len(ReturnTypes) |-> LiteralOf(ReturnTypes[i])] \o <<EIdentifier(<<"x">>)>>

\* `fn <name>(x) -> t { body }`
TypedFn(name, t, body) == SFnDeclaration(name, <<Parameter(<<"x">>, <<>>)>>, <<t>>, body)

\* the bodies of f, with `return v;` alone, after a `let`, inside an `if`,
\* before and after the declaration of a function g, and inside g
ReturnShapes == 6

ReturnBody(t, v, shape) ==
    CASE shape = 1 -> <<SReturn(<<v>>)>>
      [] shape = 2 -> <<SVarDeclaration(<<"a">>, FALSE, <<>>, <<EInteger(1)>>, "Let"), SReturn(<<v>>)>>
      [] shape = 3 -> <<SIf(EBoolean(TRUE), <<SReturn(<<v>>)>>, <<>>), SReturn(<<LiteralOf(t)>>)>>
      [] shape = 4 -> <<SReturn(<<v>>), TypedFn(<<"g">>, t, <<SReturn(<<LiteralOf(t)>>)>>)>>
      [] shape = 5 -> <<TypedFn(<<"g">>, t, <<SReturn(<<LiteralOf(t)>>)>>), SReturn(<<v>>)>>
      [] OTHER -> <<TypedFn(<<"g">>, t, <<SReturn(<<v>>)>>)>>

\* `fn f(x) -> t { body } print(1);`
ReturnProgram(ti, vi, shape) ==
    <<TypedFn(<<"f">>, ReturnTypes[ti], ReturnBody(ReturnTypes[ti], ReturnValues[vi], shape)), SPrint(EInteger(1))>>

CheckerInit ==
    /\ prog = <<>>
    /\ phase = "parsed"
    /\ lex_position = 0
    /\ tokens = <<>>
    /\ \E ti \in 1..Len(ReturnTypes), vi \in 1..Len(ReturnValues), shape \in 1..ReturnShapes :
          ast = POk(ReturnProgram(ti, vi, shape), 0)
    /\ stmt_index = 0
    /\ tcres = [ok |-> FALSE, err |-> NotRun, types |-> <<>>, assigns |-> <<>>, checks |-> {}]
    /\ chunk = [ok |-> FALSE, err |-> NotRun, chunk |-> NewChunk]
    /\ stack = NewVM.stack
    /\ globals = NewVM.globals
    /\ frames = NewVM.frames
    /\ current_frame = NewVM.current_frame
    /\ output = NewVM.output
    /\ vmerr = [status |-> NotRun, err |-> "none"]
    /\ oldres = [phase |-> NotRun, position |-> 0, tokens |-> <<>>, ast |-> PErr(NotRun, 0), stmt |-> 0,
                 it |-> [status |-> NotRun, err |-> NotRun, output |-> <<>>]]
    /\ ghost = NewGhost
    /\ file = NoFile

CheckerNext == TypeCheck

CheckerSpec == CheckerInit /\ [][CheckerNext]_vars

(***************************************************************************)
(* Properties of return statements, stated of CheckerSpec.                 *)
(***************************************************************************)

\* the return statements that belong to a body, in order: those of its
\* statements and of the branches, loops and blocks in it, not those of
\* functions declared in it
RECURSIVE ReturnsOf(_)
ReturnsIn(s) ==
    CASE s.k = "Return" -> <<s>>
      [] s.k = "If" -> ReturnsOf(s.then_branch) \o (IF s.else_branch # <<>> THEN ReturnsOf(s.else_branch[1]) ELSE <<>>)
      [] s.k \in {"While", "For"} -> ReturnsOf(s.body)
      [] s.k = "Block" -> ReturnsOf(s.statements)
      [] OTHER -> <<>>

ReturnsOf(stmts) == IF stmts = <<>> THEN <<>> ELSE ReturnsIn(Head(stmts)) \o ReturnsOf(Tail(stmts))

\* the functions declared in the statements, at any depth
RECURSIVE FunctionsOf(_)
FunctionsIn(s) ==
    CASE s.k = "FnDeclaration" -> <<s>> \o FunctionsOf(s.body)
      [] s.k = "If" -> FunctionsOf(s.then_branch) \o (IF s.else_branch # <<>> THEN FunctionsOf(s.else_branch[1]) ELSE <<>>)
      [] s.k \in {"While", "For"} -> FunctionsOf(s.body)
      [] s.k = "Block" -> FunctionsOf(s.statements)
      [] OTHER -> <<>>

FunctionsOf(stmts) == IF stmts = <<>> THEN <<>> ELSE FunctionsIn(Head(stmts)) \o FunctionsOf(Tail(stmts))

\* the type of a literal, as an Option
LiteralType(e) ==
    CASE e.k = "Integer" -> <<TInt>>
      [] e.k = "Float" -> <<TFloat>>
      [] e.k = "String" -> <<TString>>
      [] e.k = "Boolean" -> <<TBool>>
      [] OTHER -> <<>>

\* the return is of a literal whose type is not compatible with the return
\* type of the function
Mismatched(f, r) ==
    /\ f.return_type # <<>>
    /\ r.value # <<>>
    /\ LiteralType(r.value[1]) # <<>>
    /\ ~is_compatible_with(f.return_type[1], LiteralType(r.value[1])[1])

\* some function of the statements has such a return in its body
HasMismatchedReturn(stmts) ==
    \E i \in 1..Len(FunctionsOf(stmts)) :
        \E j \in 1..Len(ReturnsOf(FunctionsOf(stmts)[i].body)) :
            Mismatched(FunctionsOf(stmts)[i], ReturnsOf(FunctionsOf(stmts)[i].body)[j])

\* C21: for every function declared with return type T, each return
\* statement that belongs to its body, wherever it is in the body, whose
\* value has a type that is neither Unknown nor compatible with T is rejected
\* with ReturnTypeMismatch: the checker accepts no program that has one.
C21_ReturnsChecked ==
    /\ phase = "checked" => ~HasMismatchedReturn(ast.node)
    /\ phase = "type_error" => tcres.err = "ReturnTypeMismatch" /\ HasMismatchedReturn(ast.node)

\* a return of a value of the wrong type has been rejected
C21_Witness ==
    /\ phase = "type_error"
    /\ tcres.err = "ReturnTypeMismatch"
    /\ HasMismatchedReturn(ast.node)

(***************************************************************************)
(* Properties of the parser's assignments, stated of Spec.                 *)
(***************************************************************************)

\* the number of Assign, IndexAssign and FieldAssign nodes of an expression,
\* and of the statements, each initializer of a declaration counted as one
RECURSIVE AssignsIn(_)
RECURSIVE AssignsInAll(_)
RECURSIVE AssignsOf(_)
AssignsIn(e) ==
    CASE e.k = "Assign" -> 1 + AssignsIn(e.value)
      [] e.k = "IndexAssign" -> 1 + AssignsIn(e.object) + AssignsIn(e.index) + AssignsIn(e.value)
      [] e.k = "FieldAssign" -> 1 + AssignsIn(e.object) + AssignsIn(e.value)
      [] e.k = "Array" -> AssignsInAll(e.elements)
      [] e.k = "Binary" -> AssignsIn(e.left) + AssignsIn(e.right)
      [] e.k = "Unary" -> AssignsIn(e.operand)
      [] e.k = "Call" -> AssignsIn(e.callee) + AssignsInAll(e.arguments)
      [] e.k = "Index" -> AssignsIn(e.object) + AssignsIn(e.index)
      [] e.k = "FieldAccess" -> AssignsIn(e.object)
      [] e.k = "StructLiteral" -> AssignsInAll([i \in 1..Len(e.fields) |-> e.fields[i].value])
      [] OTHER -> 0

AssignsInAll(es) == IF es = <<>> THEN 0 ELSE AssignsIn(Head(es)) + AssignsInAll(Tail(es))

AssignsInStmt(s) ==
    CASE s.k = "Expression" -> AssignsIn(s.expr)
      [] s.k = "VarDeclaration" -> IF s.initializer # <<>> THEN 1 + AssignsIn(s.initializer[1]) ELSE 0
      [] s.k = "FnDeclaration" -> AssignsOf(s.body)
      [] s.k = "Return" -> IF s.value # <<>> THEN AssignsIn(s.value[1]) ELSE 0
      [] s.k = "If" -> AssignsIn(s.condition) + AssignsOf(s.then_branch) + (IF s.else_branch # <<>> THEN AssignsOf(s.else_branch[1]) ELSE 0)
      [] s.k = "While" -> AssignsIn(s.condition) + AssignsOf(s.body)
      [] s.k = "For" -> AssignsIn(s.start) + AssignsIn(s.end) + AssignsOf(s.body)
      [] s.k = "Print" -> AssignsIn(s.value)
      [] s.k = "Block" -> AssignsOf(s.statements)
      [] OTHER -> 0

AssignsOf(stmts) == IF stmts = <<>> THEN 0 ELSE AssignsInStmt(Head(stmts)) + AssignsOf(Tail(stmts))

\* the number of Equal tokens
EqualTokens == Cardinality({i \in 1..Len(tokens) : tokens[i].token_type = "Equal"})

\* C22: the parser accepts an `=` in expression position only when the
\* expression to its left is an identifier, an index expression or a field
\* access, and makes of it an Assign, IndexAssign or FieldAssign; for every
\* other left side the parse fails.  So in a program that has parsed every
\* Equal token is the `=` of a declaration's initializer or of one such node.
C22_EqualNeedsTarget ==
    phase = "parsed" => EqualTokens = AssignsOf(ast.node)

\* `a = b = 3` has parsed as Assign(a, Assign(b, 3))
C22_Witness ==
    /\ phase = "parsed"
    /\ \E i \in 1..Len(ast.node) :
          /\ ast.node[i] = SExpression(EAssign(<<"a">>, EAssign(<<"b">>, EInteger(3))))

(***************************************************************************)
(* Properties of the compiler's scopes, stated of Spec.                    *)
(***************************************************************************)
\* the positions of the locals of that name
LocalsNamed(locals, name) == {j \in 1..Len(locals) : locals[j].name = name}

\* the identifier of the note went to the last local of its name, and to a
\* global when the locals held none
ResolvedInnermost(n) ==
    LET hits == LocalsNamed(n.locals, n.name)
    IN IF hits = {} THEN n.instr.op \in {"LoadGlobal", "StoreGlobal"}
       ELSE /\ n.instr.op \in {"LoadLocal", "StoreLocal"}
            /\ n.instr.a + 1 \in hits
            /\ \A j \in hits : j <= n.instr.a + 1

NotDeeper(locals, depth) == {j \in 1..Len(locals) : locals[j].depth <= depth}

\* the end_scope of the note kept the locals not deeper than the new depth,
\* as they were, and emitted one Pop for each of the others
ClosedScope(n) ==
    /\ \A j \in 1..Len(n.before) : j \in NotDeeper(n.before, n.depth) <=> j <= Len(n.after)
    /\ n.after = SubSeq(n.before, 1, Len(n.after))
    /\ n.emitted = [j \in 1..(Len(n.before) - Len(n.after)) |-> Op0("Pop")]

\* C23: at every point of compilation an identifier resolves to the most
\* recently declared local of its name that is still in the locals, and to a
\* global only when there is none; after end_scope the locals are exactly
\* those whose depth is at most the new depth, in their order, and one Pop
\* has been emitted for each local removed.
C23_InnermostLocal ==
    \A c \in ChunksOf(chunk.chunk) :
        /\ \A i \in 1..Len(c.rs) : ResolvedInnermost(c.rs[i])
        /\ \A i \in 1..Len(c.es) : ClosedScope(c.es[i])

\* a scope that shadowed x has been closed, and an x after it went to the
\* outer local again
C23_Witness ==
    /\ CompileFinished
    /\ \E c \in ChunksOf(chunk.chunk) : \E i \in 1..Len(c.es), k \in 1..Len(c.rs) :
          /\ Cardinality(LocalsNamed(c.es[i].before, <<"x">>)) = 2
          /\ Cardinality(LocalsNamed(c.es[i].after, <<"x">>)) = 1
          /\ Len(c.es[i].emitted) = 2
          /\ c.rs[k].locals = c.es[i].after
          /\ c.rs[k].name = <<"x">>
          /\ c.rs[k].instr = Op("StoreLocal", 0)

(***************************************************************************)
(* Properties of compiled for loops, stated of Spec.                       *)
(***************************************************************************)
\* the lines a, a + 1, ..., b - 1
RangeLines(a, b) == [k \in 1..(IF b > a THEN b - a ELSE 0) |-> IntToChars(a + k - 1)]

IsPrefixOf(s, t) == Len(s) <= Len(t) /\ s = SubSeq(t, 1, Len(s))

\* the run prints a prefix of the lines, and all of them once it has ended
PrintsLines(lines) ==
    /\ IsPrefixOf(output, lines)
    /\ Ended => phase = "done" /\ output = lines

\* C24: the compiled code of `for i in a..b { print(i); }` evaluates a and b
\* once each before the first iteration and runs the body max(0, b - a)
\* times with i = a, a + 1, ..., b - 1 in that order, whatever statements
\* come before the loop: the run prints what the evaluation of a and of b
\* prints, once, then the lines a, ..., b - 1, and halts.
C24_ForRunsRange ==
    /\ \A pre \in RangePrefixes, a \in RangeLows, b \in RangeHighs :
          prog = Src(ForRangeProg(pre, IntWords(a), IntWords(b))) => PrintsLines(RangeLines(a, b))
    /\ prog = Src(CallBoundsProg) => PrintsLines(<<IntToChars(7), IntToChars(8)>> \o RangeLines(1, 3))

\* a loop over 0..3 that follows `for j in 0..2 { let y = j; }` has ended
\* without printing 0, 1, 2
C24_Witness ==
    /\ prog = Src(ForRangeProg(<<"for", "j", "in", "0", "..", "2", "{", "let", "y", "=", "j", ";", "}">>, IntWords(0), IntWords(3)))
    /\ Ended
    /\ output # RangeLines(0, 3)

\* the loads and stores of y that the VM has executed
UsesOfY == {u \in ghost.lv : u.name = <<"y">>}

\* every iteration of a loop of that kind began with the stack as high as
\* the iteration before it
SameHeight(kind) == \A l \in ghost.loops : l.kind = kind => l.before = {l.after}

\* every use of y found in y's slot the value y was declared with in that
\* iteration
ReadsOwnValue == \A u \in UsesOfY : u.cur # {} /\ u.holds = u.cur

\* C25: in the compiled code of a for loop every iteration begins with the
\* same height of the operand stack, and a variable declared in the body of
\* the loop reads in each iteration the value its declaration pushed in that
\* iteration.
C25_ForBodyLocals ==
    /\ SameHeight("For")
    /\ prog = Src(ForBodyLocalProg) => ReadsOwnValue

\* the same, of a while loop
WhileBodyLocals ==
    /\ SameHeight("While")
    /\ prog = Src(WhileBodyLocalProg) => ReadsOwnValue /\ (phase = "done" => output = RangeLines(0, 3))

\* the second iteration of `for i in 0..3 { let y = i; print(y); }` has read
\* y: y is 1 and the slot holds 0
C25_Witness ==
    /\ prog = Src(ForBodyLocalProg)
    /\ \E l \in ghost.loops : l.kind = "For" /\ l.before # {l.after}
    /\ \E u \in UsesOfY : u.op = "LoadLocal" /\ u.cur = {VInt(1)} /\ u.holds = {VInt(0)}

(***************************************************************************)
(* Properties of the VM's fetch, stated of Spec.                           *)
(***************************************************************************)
\* C26: for every compiled program, whenever the VM fetches an instruction
\* the ip of the current frame is less than the length of the code of that
\* frame's chunk.
C26_FetchInsideCode ==
    (phase = "running" /\ current_frame < Len(frames)) =>
        CurFrame(VMState).ip < Len(CurFrame(VMState).function.chunk.code)

\* a called function is about to fetch the Return that ends its chunk
C26_Witness ==
    /\ phase = "running"
    /\ current_frame >= 1
    /\ CurFrame(VMState).ip = Len(CurFrame(VMState).function.chunk.code) - 1
    /\ Fetch(VMState) = Op0("Return")

(***************************************************************************)
(* Properties of a VM that executes more than once, stated of ReuseSpec.   *)
(***************************************************************************)
\* C27: through any sequence of execute calls on one VM, a second execute
\* after a run that ended with Halt or with an error included, current_frame
\* is the index of the frame pushed last whenever an instruction is fetched.
C27_CurrentFrameIsLast ==
    phase = "running" => current_frame = Len(frames) - 1

\* execute has been called a second time after a run that ended with Halt:
\* two frames, and run is about to read frame 0
C27_Witness ==
    /\ phase = "running"
    /\ ghost.executes = 2
    /\ Len(frames) = 2
    /\ current_frame = 0
    /\ frames[1].ip = Len(frames[1].function.chunk.code)

(***************************************************************************)
(* Properties of calls that nest without end, stated of RecursionSpec.     *)
(***************************************************************************)
\* the frames of calls, the frame of the main function left out
CallFrames == 2..Len(frames)

\* C28: the depth of the call frames is bounded: calls that nest without
\* end, as those of a function of any arity, zero included, that calls
\* itself unconditionally, are aborted with StackOverflow.  VM::push raises
\* StackOverflow on an operand stack of StackMax values and nothing else
\* limits the frames, so the bound is this: of two call frames the deeper
\* one starts higher on the operand stack, and a run ends in no other way
\* than StackOverflow.
C28_FrameDepthBounded ==
    /\ \A d1, d2 \in CallFrames : d1 < d2 => frames[d1].stack_offset < frames[d2].stack_offset
    /\ phase = "runtime_error" => VMFailed("StackOverflow")
    /\ phase \notin {"done", "vm_panic"}

\* the function without parameters has called itself MaxFrames - 1 times
\* and the operand stack is as empty as at the first call
C28_Witness ==
    /\ prog = Src(SelfCallProg(0))
    /\ phase = "running"
    /\ Len(frames) = MaxFrames
    /\ \A d \in CallFrames : frames[d].stack_offset = 0
    /\ stack = <<>>

(***************************************************************************)
(* Properties of names the checker has resolved, stated of Spec.           *)
(***************************************************************************)
\* C29: the compiled code of a program the type checker has accepted never
\* fails with UndefinedVariable: every identifier the checker resolved,
\* a nested function's reference to a variable or function of an enclosing
\* function or block included, is a local slot or a global that holds a
\* value when the reference executes.
C29_ResolvedNamesAreDefined ==
    ~VMFailed("UndefinedVariable")

\* the checker has accepted a function that reads a variable of the
\* function around it, and the VM has not found the variable
C29_Witness ==
    /\ prog = Src(EnclosingLocalProg)
    /\ "type_checker" \in ghost.ran
    /\ tcres.ok
    /\ phase = "runtime_error"
    /\ VMFailed("UndefinedVariable")

(***************************************************************************)
(* Properties of the lexer on any input, stated of LexerSpec.              *)
(***************************************************************************)
\* the positions of the EOF tokens
EOFTokens == {i \in 1..Len(tokens) : tokens[i].token_type = "EOF"}

\* C30: for every input tokenize terminates without a fault and returns
\* tokens with exactly one EOF, the last; an unclosed string literal and an
\* input that ends right after a backslash inside a string literal
\* included.  Each token but EOF takes at least one character, so the loop
\* has pushed at most one token per character of the input, and EOF.
C30_TokenizeReturns ==
    /\ phase # "lexer_panic"
    /\ Len(tokens) <= Len(prog) + 1
    /\ phase = "start" => EOFTokens = {}
    /\ phase = "lexed" => EOFTokens = {Len(tokens)}

\* the input `"a\` has made the lexer slice past the end of the input
C30_Witness ==
    /\ prog = <<"\"", "a", "\\">>
    /\ phase = "lexer_panic"

====
